---- MODULE Spec2Model ----
(***************************************************************************)
(* A model of the extraction engine of src/scraper.py (class AMCScraper):  *)
(* extract_content_with_images (the tree walk), extract_problem (problem   *)
(* region + answer choices) and extract_solutions (solution regions).      *)
(*                                                                         *)
(* Python strings are sequences of one-character strings, so that strip,   *)
(* lower, startswith, "in" and the regular expressions of the source are   *)
(* computed character by character.  A page is a tree of node records; a   *)
(* node is addressed by its path (the child indices from the root), which  *)
(* gives parent, sibling and document order.                               *)
(*                                                                         *)
(* Two smaller machines share the module: the session handling of          *)
(* src/app.py (login, logout and the routes behind login_required) and     *)
(* the resumable labelling loop of src/label_problems.py (load_labels,     *)
(* process_problems, save_labels with its open-then-dump write).           *)
(***************************************************************************)
EXTENDS Integers, Sequences, FiniteSets, TLC

VARIABLES
    page,            \* the parsed page tree (soup)
    problem_num,     \* argument problem_num
    netFail,         \* absolute image URLs whose download raises
    hashSeed,        \* the per-process salt of Python's hash() of a str
    fn,              \* which function is running
    pc,              \* position inside that function
    current,         \* local "current" of the sibling scans (a path)
    problem_content, \* local list of sibling elements of the problem region
    problem_data,    \* the record extract_problem builds and returns
    found_choices,   \* local flag of the textual cascade
    alt_idx,         \* position of the image-alt loop in problem_data.content
    i,               \* loop variable of extract_solutions
    solution_data,   \* the record of the solution being collected
    solutions,       \* the list extract_solutions builds and returns
    calls,           \* 0: one function called alone; 1, 2: first and second
                     \* call of scrape_all on the same AMCScraper
    web,             \* the page tree behind each problem URL
    fetchFail,       \* problem URLs whose fetch raises during the second call
    problem_links,   \* the list get_problem_links returned
    link_idx,        \* position of the loop of scrape_all in problem_links
    all_problems,    \* the list scrape_all builds, saves and returns
    reference,       \* what the first call of scrape_all returned
    output_file,     \* what was written to the JSON file, one entry per write
    images_dir,      \* the files of images_dir: name and the URL it holds
    \* src/app.py, one browser session
    session,         \* the Flask session of the client
    last_request,    \* the last request: endpoint, status, whether the
                     \* handler behind login_required ran
    auth_hist,       \* history: "never" logged in, logged "in", or logged
                     \* "out" since the last successful login
    n_req,           \* number of requests so far
    \* src/label_problems.py
    labels,          \* ProblemLabeler.labels: problem key -> primary category
    labels_file,     \* problem_labels.json: parseable or not, and its content
    lpc,             \* position of the labeling process
    screenshot_idx,  \* position of the loop of process_problems
    persisted,       \* history: the labels whose save completed, as first saved
    n_runs           \* number of runs started so far

scrapeVars ==
    <<calls, web, fetchFail, problem_links, all_problems, reference,
      output_file>>

scraperVars ==
    <<page, problem_num, netFail, hashSeed, fn, pc, current,
      problem_content, problem_data, found_choices, alt_idx, i,
      solution_data, solutions, link_idx, scrapeVars, images_dir>>

appVars == <<session, last_request, auth_hist, n_req>>

labelVars ==
    <<labels, labels_file, lpc, screenshot_idx, persisted, n_runs>>

vars == <<scraperVars, appVars, labelVars>>

---------------------------------------------------------------------------
(* Bounds of the model. *)

\* most children of the problem paragraph in the answer-choice pages
MaxItems == 2
\* most sibling elements under the container in the segmentation pages
MaxSiblings == 3
\* most sections (heading + optional paragraph) in the solution pages
MaxSections == 3
\* most children of the paragraph in the tree-walk pages
MaxKids == 2
\* most problem links in a call of scrape_all
MaxLinks == 2

\* most requests of the browser session
MaxRequests == 4
\* number of screenshots discover_screenshots finds
MaxProblems == 2
\* most runs of label_problems.py
MaxRuns == 2

\* default of the parameter max_solutions, and its value at the only call
max_solutions == 3

---------------------------------------------------------------------------
(* String literals of the source and of the sample pages. *)

s_Problem == <<"P", "r", "o", "b", "l", "e", "m">>
s_problem == <<"p", "r", "o", "b", "l", "e", "m">>
s_solution == <<"s", "o", "l", "u", "t", "i", "o", "n">>
s_Solution == <<"S", "o", "l", "u", "t", "i", "o", "n">>
s_see_also == <<"s", "e", "e", " ", "a", "l", "s", "o">>
s_video_solution == <<"v", "i", "d", "e", "o", " ", "s", "o", "l", "u", "t", "i", "o", "n">>
s_video == <<"v", "i", "d", "e", "o">>
s_Solution_ == <<"S", "o", "l", "u", "t", "i", "o", "n", "_">>
s_Solution_sp == <<"S", "o", "l", "u", "t", "i", "o", "n", " ">>
s_Video == <<"V", "i", "d", "e", "o">>
s_See_Also == <<"S", "e", "e", "_", "A", "l", "s", "o">>
s_http == <<"h", "t", "t", "p">>
s_https_colon == <<"h", "t", "t", "p", "s", ":">>
s_png == <<".", "p", "n", "g">>
s_textbf_open == <<"\\", "t", "e", "x", "t", "b", "f", "{", "(">>
s_close == <<")", "}">>
s_qquad == <<"\\", "q", "q", "u", "a", "d">>
s_textbf == <<"\\", "t", "e", "x", "t", "b", "f">>
s_marker_A == <<"t", "e", "x", "t", "b", "f", "{", "(", "A", ")", "}">>
s_solution_role == <<"s", "o", "l", "u", "t", "i", "o", "n", "_">>
BASE_URL == <<"h", "t", "t", "p", "s", ":", "/", "/", "a", "r", "t", "o", "f", "p", "r", "o", "b", "l", "e", "m", "s", "o", "l", "v", "i", "n", "g", ".", "c", "o", "m">>

\* Python's None where a string is expected (an absent attribute)
NoneStr == <<"#None">>
\* Python's None where a node is expected (child indices start at 1)
NoNode == <<0>>

UpperSeq == <<"A", "B", "C", "D", "E", "F", "G", "H", "I", "J", "K", "L", "M",
              "N", "O", "P", "Q", "R", "S", "T", "U", "V", "W", "X", "Y", "Z">>
LowerSeq == <<"a", "b", "c", "d", "e", "f", "g", "h", "i", "j", "k", "l", "m",
              "n", "o", "p", "q", "r", "s", "t", "u", "v", "w", "x", "y", "z">>
DigitSeq == <<"0", "1", "2", "3", "4", "5", "6", "7", "8", "9">>

\* the characters str.strip() removes and the class \s matches
Whitespace == {" ", "\n", "\t"}
Digits == {DigitSeq[d] : d \in 1..Len(DigitSeq)}
Alpha == {UpperSeq[k] : k \in 1..Len(UpperSeq)} \cup {LowerSeq[k] : k \in 1..Len(LowerSeq)}
DigitVal(c) == (CHOOSE d \in 1..Len(DigitSeq) : DigitSeq[d] = c) - 1
LowerChar(c) ==
    IF \E k \in 1..Len(UpperSeq) : UpperSeq[k] = c
    THEN LowerSeq[CHOOSE k \in 1..Len(UpperSeq) : UpperSeq[k] = c]
    ELSE c

Min(S) == CHOOSE a \in S : \A b \in S : a <= b
Max(S) == CHOOSE a \in S : \A b \in S : a >= b

\* str.lower()
Lower(s) == [k \in 1..Len(s) |-> LowerChar(s[k])]

\* str.strip()
Strip(s) ==
    LET keep == {k \in 1..Len(s) : s[k] \notin Whitespace}
    IN  IF keep = {} THEN <<>>
        ELSE SubSeq(s, CHOOSE a \in keep : \A b \in keep : a <= b,
                       CHOOSE a \in keep : \A b \in keep : a >= b)

\* s[p:].startswith(lit)
HasAt(s, p, lit) ==
    /\ p >= 1
    /\ p + Len(lit) - 1 <= Len(s)
    /\ \A k \in 1..Len(lit) : s[p + k - 1] = lit[k]

\* str.startswith(lit)
StartsWith(s, lit) == HasAt(s, 1, lit)

\* lit in s
Contains(s, lit) == \E p \in 1..(Len(s) + 1) : HasAt(s, p, lit)

\* str(n) for a natural number n
RECURSIVE IntToStr(_)
IntToStr(n) ==
    IF n < 10 THEN <<DigitSeq[n + 1]>>
    ELSE IntToStr(n \div 10) \o <<DigitSeq[(n % 10) + 1]>>

\* int(s[p:q]) for a run of digits, most significant first
RECURSIVE StrToInt(_)
StrToInt(s) ==
    IF s = <<>> THEN 0
    ELSE 10 * StrToInt(SubSeq(s, 1, Len(s) - 1)) + DigitVal(s[Len(s)])

\* the end of the longest run of characters of the set cls starting at p
\* (p - 1 when there is none): a greedy [cls]*
RECURSIVE RunEnd(_, _, _)
RunEnd(s, p, cls) ==
    IF p <= Len(s) /\ s[p] \in cls THEN RunEnd(s, p + 1, cls) ELSE p - 1

---------------------------------------------------------------------------
(* The page tree (BeautifulSoup).  A node is a record                      *)
(*   [name, id, src, data_src, alt, text, kids];                           *)
(* name is the tag name, "#text" for a NavigableString and "[document]"    *)
(* for the BeautifulSoup object; an absent attribute is NoneStr.           *)

TextNode(t) ==
    [name |-> "#text", id |-> NoneStr, src |-> NoneStr, data_src |-> NoneStr,
     alt |-> NoneStr, text |-> t, kids |-> <<>>]

Tag(nm, ident, ks) ==
    [name |-> nm, id |-> ident, src |-> NoneStr, data_src |-> NoneStr,
     alt |-> NoneStr, text |-> <<>>, kids |-> ks]

Img(source, alternative) ==
    [name |-> "img", id |-> NoneStr, src |-> source, data_src |-> NoneStr,
     alt |-> alternative, text |-> <<>>, kids |-> <<>>]

\* <img data-src=...>, an image with the lazy-loading attribute only
ImgLazy(source, alternative) ==
    [name |-> "img", id |-> NoneStr, src |-> NoneStr, data_src |-> source,
     alt |-> alternative, text |-> <<>>, kids |-> <<>>]

IsTag(n) == n.name # "#text"

\* a value used as a condition: None and '' are false
Truthy(v) == v # NoneStr /\ v # <<>>

RECURSIVE NodeAt(_, _)
NodeAt(n, path) ==
    IF path = <<>> THEN n ELSE NodeAt(n.kids[Head(path)], Tail(path))

Node(path) == NodeAt(page, path)

\* Tag.parent
Parent(path) ==
    IF path = <<>> THEN NoNode ELSE SubSeq(path, 1, Len(path) - 1)

\* Tag.descendants: every node below path, in document order
RECURSIVE DescKids(_, _, _)
DescKids(n, path, k) ==
    IF k > Len(n.kids) THEN <<>>
    ELSE <<path \o <<k>>>> \o DescKids(n.kids[k], path \o <<k>>, 1)
                            \o DescKids(n, path, k + 1)

Descendants(path) == DescKids(Node(path), path, 1)

FirstOf(paths) == IF paths = <<>> THEN NoNode ELSE paths[1]

\* Tag.find_all(names): the tags below path with one of the names
find_all(path, names) ==
    SelectSeq(Descendants(path), LAMBDA q : Node(q).name \in names)

\* Tag.find(nm, {'id': ident})
find_by_id(path, nm, ident) ==
    FirstOf(SelectSeq(Descendants(path),
                      LAMBDA q : Node(q).name = nm /\ Node(q).id = ident))

\* Tag.find(nm, id=True): the first nm tag that has an id attribute
find_with_id(path, nm) ==
    FirstOf(SelectSeq(Descendants(path),
                      LAMBDA q : Node(q).name = nm /\ Node(q).id # NoneStr))

\* Tag.find(nm)
find(path, nm) == FirstOf(find_all(path, {nm}))

RECURSIVE JoinTexts(_, _)
JoinTexts(paths, strip) ==
    IF paths = <<>> THEN <<>>
    ELSE LET n == Node(Head(paths))
             t == IF IsTag(n) THEN <<>>
                  ELSE IF strip THEN Strip(n.text) ELSE n.text
         IN  t \o JoinTexts(Tail(paths), strip)

\* Tag.get_text(): the strings below path, concatenated
get_text(path) == JoinTexts(Descendants(path), FALSE)

\* Tag.get_text(strip=True): each string stripped, the empty ones dropped
get_text_strip(path) == JoinTexts(Descendants(path), TRUE)

\* find_next_sibling that does not move on
find_next_sibling_Stuck(path) == IF path = <<>> THEN NoNode ELSE path

\* Tag.find_next_sibling(): the next sibling that is a tag (strings skipped)
find_next_sibling(path) ==
    IF path = <<>> THEN NoNode
    ELSE LET par  == Parent(path)
             here == path[Len(path)]
             later == {k \in (here + 1)..Len(Node(par).kids) :
                          IsTag(Node(par).kids[k])}
         IN  IF later = {} THEN NoNode
             ELSE par \o <<CHOOSE k \in later : \A m \in later : k <= m>>

---------------------------------------------------------------------------
(* download_image and extract_content_with_images.                        *)

\* urljoin(BASE_URL, img_url) for the references without a scheme
AbsUrl(img_url) ==
    IF StartsWith(img_url, s_http) THEN img_url
    ELSE IF StartsWith(img_url, <<"/", "/">>) THEN s_https_colon \o img_url
    ELSE IF StartsWith(img_url, <<"/">>) THEN BASE_URL \o img_url
    ELSE BASE_URL \o <<"/">> \o img_url

\* os.path.splitext(urlparse(img_url).path)[1] or '.png'
UrlExt(url) ==
    LET cut  == {k \in 1..Len(url) : url[k] \in {"?", "#"}}
        stop == IF cut = {} THEN Len(url)
                ELSE (CHOOSE k \in cut : \A m \in cut : k <= m) - 1
        scheme == {k \in 1..stop : HasAt(url, k, <<":", "/", "/">>)}
        host == IF scheme = {} THEN 1
                ELSE (CHOOSE k \in scheme : \A m \in scheme : k <= m) + 3
        slashes == {k \in host..stop : url[k] = "/"}
        base == IF slashes = {} THEN stop + 1
                ELSE (CHOOSE k \in slashes : \A m \in slashes : k >= m) + 1
        dots == {k \in (base + 1)..stop :
                    url[k] = "." /\ \E m \in base..(k - 1) : url[m] # "."}
    IN  IF dots = {} THEN s_png
        ELSE SubSeq(url, CHOOSE k \in dots : \A m \in dots : k >= m, stop)

\* hash(img_url) % 10000: hashSeed maps each absolute URL to its residue
UrlHash(url) == hashSeed[url]

\* download_image: the local file name, or None when the request fails
download_image(img_url, num, img_type) ==
    LET url == AbsUrl(img_url)
    IN  IF url \in netFail THEN <<>>
        ELSE <<[num |-> num, role |-> img_type, suffix |-> UrlHash(url),
                ext |-> UrlExt(url)]>>

\* The content items.  One record shape for the four kinds; node is the
\* path of the node the item comes from (a history field, not in the data).
TextItem(t, path) ==
    [type |-> "text", content |-> t, html |-> <<>>, tag |-> "",
     src |-> NoneStr, local_path |-> <<>>, alt |-> NoneStr, node |-> path]

LineBreakItem(path) ==
    [type |-> "line_break", content |-> <<>>, html |-> <<>>, tag |-> "",
     src |-> NoneStr, local_path |-> <<>>, alt |-> NoneStr, node |-> path]

HtmlItem(t, n, path) ==
    [type |-> "html", content |-> t, html |-> <<n>>, tag |-> n.name,
     src |-> NoneStr, local_path |-> <<>>, alt |-> NoneStr, node |-> path]

\* lines 134-145 and 149-160: the image item of img node n, if any
ImageItems(n, path, num, img_type) ==
    LET img_src == IF Truthy(n.src) THEN n.src ELSE n.data_src
    IN  IF ~Truthy(img_src) THEN <<>>
        ELSE LET local_path == download_image(img_src, num, img_type)
             IN  IF local_path = <<>> THEN <<>>
                 ELSE <<[type |-> "image", content |-> <<>>, html |-> <<>>,
                         tag |-> "", src |-> img_src,
                         local_path |-> local_path,
                         alt |-> IF n.alt = NoneStr THEN <<>> ELSE n.alt,
                         node |-> path]>>

Containers == {"p", "div", "span", "br", "pre", "code"}

RECURSIVE WriteImages_KeepsFirst(_, _)
\* WriteImages that leaves an existing file as it is
WriteImages_KeepsFirst(dir, items) ==
    IF items = <<>> THEN dir
    ELSE LET it == Head(items)
             taken == \E f \in dir : f.name = it.local_path
         IN  WriteImages_KeepsFirst(
                 IF it.type = "image" /\ ~taken
                 THEN dir \cup {[name |-> it.local_path, holds |-> AbsUrl(it.src)]}
                 ELSE dir,
                 Tail(items))

RECURSIVE WriteImages(_, _)
\* lines 88-92: images_dir after the downloads behind the image items, in
\* order; open(filepath, 'wb') replaces a file of the same name
WriteImages(dir, items) ==
    IF items = <<>> THEN dir
    ELSE LET it == Head(items)
         IN  WriteImages(
                 IF it.type = "image"
                 THEN {f \in dir : f.name # it.local_path}
                          \cup {[name |-> it.local_path, holds |-> AbsUrl(it.src)]}
                 ELSE dir,
                 Tail(items))

RECURSIVE WalkChildren(_, _, _, _)
RECURSIVE ChildItems(_, _, _)

\* ChildItems with lstrip() where the source strips both ends
ChildItems_LeftStrip(cp, num, img_type) ==
    LET child == Node(cp)
        lead == {k \in 1..Len(child.text) : child.text[k] \notin Whitespace}
    IN
    IF ~IsTag(child)
    THEN IF lead # {}
         THEN <<TextItem(SubSeq(child.text, Min(lead), Len(child.text)), cp)>>
         ELSE <<>>
    ELSE IF child.name = "img"
    THEN ImageItems(child, cp, num, img_type)
    ELSE IF child.name = "a" /\ find(cp, "img") # NoNode
    THEN ImageItems(Node(find(cp, "img")), cp, num, img_type)
    ELSE IF child.name \in Containers
    THEN WalkChildren(cp, 1, num, img_type)
    ELSE IF child.name = "br"
    THEN <<LineBreakItem(cp)>>
    ELSE LET text == get_text_strip(cp)
         IN  IF text # <<>> THEN <<HtmlItem(text, child, cp)>> ELSE <<>>

\* the body of the loop "for child in element.children" for one child
ChildItems(cp, num, img_type) ==
    LET child == Node(cp) IN
    IF ~IsTag(child)
    THEN LET text == Strip(child.text)
         IN  IF text # <<>> THEN <<TextItem(text, cp)>> ELSE <<>>
    ELSE IF child.name = "img"
    THEN ImageItems(child, cp, num, img_type)
    ELSE IF child.name = "a" /\ find(cp, "img") # NoNode
    THEN ImageItems(Node(find(cp, "img")), cp, num, img_type)
    ELSE IF child.name \in Containers
    THEN WalkChildren(cp, 1, num, img_type)
    ELSE IF child.name = "br"
    THEN <<LineBreakItem(cp)>>
    ELSE LET text == get_text_strip(cp)
         IN  IF text # <<>> THEN <<HtmlItem(text, child, cp)>> ELSE <<>>

\* WalkChildren that puts the items of a later child first
WalkChildren_Reversed(path, k, num, img_type) ==
    IF k > Len(Node(path).kids) THEN <<>>
    ELSE WalkChildren(path, k + 1, num, img_type)
            \o ChildItems(path \o <<k>>, num, img_type)

WalkChildren(path, k, num, img_type) ==
    IF k > Len(Node(path).kids) THEN <<>>
    ELSE ChildItems(path \o <<k>>, num, img_type)
            \o WalkChildren(path, k + 1, num, img_type)

\* extract_content_with_images(element, problem_num, img_type)
extract_content_with_images(path, num, img_type) ==
    IF path = NoNode THEN <<>>
    ELSE IF ~IsTag(Node(path))
    THEN LET text == Strip(Node(path).text)
         IN  IF text # <<>> THEN <<TextItem(text, path)>> ELSE <<>>
    ELSE WalkChildren(path, 1, num, img_type)

---------------------------------------------------------------------------
(* The answer-choice patterns of extract_problem, matched as Python's re   *)
(* matches them: leftmost match, a greedy run that gives characters back,  *)
(* a lazy group that stops at the first place its lookahead holds.         *)

ChoiceLetters == <<"A", "B", "C", "D", "E">>
LetterSet == {ChoiceLetters[k] : k \in 1..Len(ChoiceLetters)}

\* the regex $ (no MULTILINE): the end, or before a final newline
AtEnd(s, q) == q > Len(s) \/ (q = Len(s) /\ s[q] = "\n")

\* (?=\$|\\qquad|$)
LookText(s, q) ==
    \/ (q <= Len(s) /\ s[q] = "$")
    \/ HasAt(s, q, s_qquad)
    \/ AtEnd(s, q)

\* LookAlt without the \qquad alternative
LookAlt_NoQquad(s, q) == HasAt(s, q, s_textbf) \/ AtEnd(s, q)

\* (?=\\qquad|\\textbf|$)
LookAlt(s, q) ==
    HasAt(s, q, s_qquad) \/ HasAt(s, q, s_textbf) \/ AtEnd(s, q)

\* The three entries of answer_patterns: what precedes the letter, what
\* follows it, and the class of the greedy run before the group.  In the
\* first two the source writes \\s* in a raw string: a backslash, then s*.
answer_patterns ==
    << [pre |-> <<"$">> \o s_textbf_open, post |-> s_close \o <<"\\">>,
        run |-> {"s"}],
       [pre |-> s_textbf_open, post |-> s_close \o <<"\\">>, run |-> {"s"}],
       [pre |-> <<"(">>, post |-> <<")">>, run |-> Whitespace] >>

\* the per-letter pattern of the image-alt fallback (line 278)
alt_pattern(letter) ==
    [pre |-> s_textbf_open \o <<letter>> \o s_close \o <<"\\">>,
     run |-> {"s"}]

\* The last index of a lazy group [^x]+? that starts at g, 0 when it has no
\* match: it takes one character outside stop, then one more at a time
\* until the lookahead holds, and fails at the first character of stop.
LazyEnd(s, g, stop, alt) ==
    LET bars == {k \in g..Len(s) : s[k] \in stop}
        lim  == IF bars = {} THEN Len(s) ELSE Min(bars) - 1
        ends == {e \in g..lim :
                    IF alt THEN LookAlt(s, e + 1) ELSE LookText(s, e + 1)}
    IN  IF ends = {} THEN 0 ELSE Min(ends)

\* The greedy run before the group ends at k (q - 1: it is empty); it is
\* tried longest first and gives one character back at a time.
RECURSIVE TailFrom(_, _, _, _, _)
TailFrom(s, q, k, stop, alt) ==
    IF k < q - 1 THEN <<>>
    ELSE LET e == LazyEnd(s, k + 1, stop, alt)
         IN  IF e # 0 THEN <<k + 1, e>> ELSE TailFrom(s, q, k - 1, stop, alt)

\* The tail of a match from q on: a greedy run of class run, then the lazy
\* group: <<g, e>>, the group's first and last index, or <<>>.
MatchTail(s, q, run, stop, alt) ==
    TailFrom(s, q, RunEnd(s, q, run), stop, alt)

\* a match of one of answer_patterns that starts at p: <<letter, text, end>>
MatchTextAt(s, p, pat) ==
    LET lp == p + Len(pat.pre)
        q  == lp + 1 + Len(pat.post)
        ge == MatchTail(s, q, pat.run, {"$"}, FALSE)
    IN  IF /\ HasAt(s, p, pat.pre)
           /\ lp <= Len(s)
           /\ s[lp] \in LetterSet
           /\ HasAt(s, lp + 1, pat.post)
           /\ ge # <<>>
        THEN <<s[lp], SubSeq(s, ge[1], ge[2]), ge[2]>>
        ELSE <<>>

\* re.findall(pattern, s) from position p on: the <<letter, text>> pairs
\* of the leftmost match and of the matches after its end
RECURSIVE FindAllFrom(_, _, _)
FindAllFrom(s, p, pat) ==
    LET starts == {q \in p..Len(s) : MatchTextAt(s, q, pat) # <<>>}
        m == MatchTextAt(s, Min(starts), pat)
    IN  IF starts = {} THEN <<>>
        ELSE <<<<m[1], m[2]>>>> \o FindAllFrom(s, m[3] + 1, pat)

re_findall(pat, s) == FindAllFrom(s, 1, pat)

\* the group of a match of the alt pattern that starts at p, or <<>>
MatchAltAt(s, p, pat) ==
    IF HasAt(s, p, pat.pre)
    THEN MatchTail(s, p + Len(pat.pre), pat.run, {"\\"}, TRUE)
    ELSE <<>>

\* re.search(pattern, alt_text).group(1), or NoneStr
re_search_alt(letter, s) ==
    LET pat == alt_pattern(letter)
        hits == {p \in 1..Len(s) : MatchAltAt(s, p, pat) # <<>>}
        ge == MatchAltAt(s, Min(hits), pat)
    IN  IF hits = {} THEN NoneStr ELSE SubSeq(s, ge[1], ge[2])

\* re.sub(r'\$+', '', text)
RemoveDollars(text) == SelectSeq(text, LAMBDA c : c # "$")

\* re.sub(r'\\[a-zA-Z]+\{?\}?', '', text)
RECURSIVE RemoveCommands(_, _)
RemoveCommands(text, p) ==
    IF p > Len(text) THEN <<>>
    ELSE IF text[p] = "\\" /\ RunEnd(text, p + 1, Alpha) > p
    THEN LET a == RunEnd(text, p + 1, Alpha)
             b == IF HasAt(text, a + 1, <<"{">>) THEN a + 1 ELSE a
             c == IF HasAt(text, b + 1, <<"}">>) THEN b + 1 ELSE b
         IN  RemoveCommands(text, c + 1)
    ELSE <<text[p]>> \o RemoveCommands(text, p + 1)

\* re.sub(r'\s+', ' ', text)
RECURSIVE CollapseSpaces(_, _)
CollapseSpaces(text, p) ==
    IF p > Len(text) THEN <<>>
    ELSE IF text[p] \in Whitespace
    THEN <<" ">> \o CollapseSpaces(text, RunEnd(text, p, Whitespace) + 1)
    ELSE <<text[p]>> \o CollapseSpaces(text, p + 1)

\* re.sub(r'\$+\s*$', '', text): the dollar signs that end the text
RemoveTrailingDollars(text) ==
    LET solid == {k \in 1..Len(text) : text[k] \notin Whitespace}
        last  == IF solid = {} THEN 0 ELSE Max(solid)
        keep  == {k \in 1..last : text[k] # "$"}
    IN  IF last = 0 \/ text[last] # "$" THEN text
        ELSE IF keep = {} THEN <<>> ELSE SubSeq(text, 1, Max(keep))

Choice(letter, text, source) ==
    [letter |-> letter, text |-> text, source |-> source]

\* lines 255-262: the choices of the winning pattern's matches; a choice
\* from the text has no "source" key (source is "")
RECURSIVE CleanMatches(_)
CleanMatches(matches) ==
    IF matches = <<>> THEN <<>>
    ELSE LET text == Strip(RemoveDollars(Head(matches)[2]))
         IN  (IF text # <<>>
              THEN <<Choice(Head(matches)[1], Strip(text), "")>>
              ELSE <<>>) \o CleanMatches(Tail(matches))

\* lines 235-242: ' '.join of the text and html items' content
RECURSIVE JoinParts(_)
JoinParts(parts) ==
    IF parts = <<>> THEN <<>>
    ELSE IF Len(parts) = 1 THEN parts[1]
    ELSE parts[1] \o <<" ">> \o JoinParts(Tail(parts))

problem_text_of(content) ==
    LET items == SelectSeq(content, LAMBDA it : it.type \in {"text", "html"})
    IN  JoinParts([k \in 1..Len(items) |-> items[k].content])

\* WinningPattern that prefers the last pattern with a match
WinningPattern_Last(text) ==
    LET hit == {k \in 1..Len(answer_patterns) :
                   re_findall(answer_patterns[k], text) # <<>>}
    IN  IF hit = {} THEN 0 ELSE Max(hit)

\* lines 251-264: the index of the first pattern with a match, 0 if none
WinningPattern(text) ==
    LET hit == {k \in 1..Len(answer_patterns) :
                   re_findall(answer_patterns[k], text) # <<>>}
    IN  IF hit = {} THEN 0 ELSE Min(hit)

\* lines 276-292: the choices of one image's alt text, letter by letter
RECURSIVE AltChoices(_, _)
AltChoices(alt_text, k) ==
    IF k > Len(ChoiceLetters) THEN <<>>
    ELSE LET g == re_search_alt(ChoiceLetters[k], alt_text)
             t1 == Strip(RemoveCommands(g, 1))
             t2 == Strip(CollapseSpaces(t1, 1))
             t3 == Strip(RemoveTrailingDollars(t2))
         IN  (IF g # NoneStr /\ t3 # <<>>
              THEN <<Choice(ChoiceLetters[k], t3, "image_alt")>>
              ELSE <<>>) \o AltChoices(alt_text, k + 1)

---------------------------------------------------------------------------
(* extract_problem and extract_solutions, one action per step.            *)

\* problem_heading_of whose fallback takes the first heading, whatever its text
problem_heading_of_AnyHeading ==
    LET by_id == find_by_id(<<>>, "span", s_Problem)
    IN  IF by_id # NoNode THEN by_id
        ELSE FirstOf(find_all(<<>>, {"h2", "h3", "span"}))

\* line 191-199: the Problem heading, by id and then by heading text
problem_heading_of ==
    LET by_id == find_by_id(<<>>, "span", s_Problem)
    IN  IF by_id # NoNode THEN by_id
        ELSE FirstOf(SelectSeq(find_all(<<>>, {"h2", "h3", "span"}),
                 LAMBDA h : \/ Lower(Strip(get_text(h))) = s_problem
                            \/ (Node(h).name = "span" /\ Node(h).id = s_Problem)))

\* lines 204-209: where the sibling scan starts
first_sibling_of(heading) ==
    IF Node(Parent(heading)).name # "div"
    THEN find_next_sibling(Parent(heading))
    ELSE find_next_sibling(heading)

\* IsProblemBoundary that knows only the "solution" headings
IsProblemBoundary_SolutionOnly(c) ==
    /\ Node(c).name \in {"h2", "h3"}
    /\ Contains(Lower(Strip(get_text(c))), s_solution)

\* lines 214-222: the sibling that ends the problem region
IsProblemBoundary(c) ==
    \/ /\ Node(c).name \in {"h2", "h3"}
       /\ LET text == Lower(Strip(get_text(c)))
          IN  \/ Contains(text, s_solution)
              \/ Contains(text, s_see_also)
              \/ Contains(text, s_video_solution)
    \/ /\ Node(c).name = "span"
       /\ Truthy(Node(c).id)
       /\ StartsWith(Node(c).id, s_Solution)

\* lines 228-231: the walks of the collected siblings, in order
RECURSIVE WalkAll(_, _, _)
WalkAll(elems, num, img_type) ==
    IF elems = <<>> THEN <<>>
    ELSE extract_content_with_images(Head(elems), num, img_type)
            \o WalkAll(Tail(elems), num, img_type)

\* lines 269-272: an image item whose alt text shows the (A) marker
HasChoiceMarker(item) ==
    /\ item.type = "image"
    /\ Truthy(item.alt)
    /\ (Contains(item.alt, <<"\\">> \o s_marker_A) \/ Contains(item.alt, s_marker_A))

LocateProblem ==
    /\ fn = "extract_problem" /\ pc = "start"
    /\ IF problem_heading_of = NoNode
       THEN /\ pc' = "done"
            /\ UNCHANGED current
       ELSE /\ pc' = "p_scan"
            /\ current' = first_sibling_of(problem_heading_of)
    /\ UNCHANGED <<appVars, labelVars, link_idx, scrapeVars, images_dir, page, problem_num, netFail, hashSeed, fn, problem_content,
                   problem_data, found_choices, alt_idx, i, solution_data,
                   solutions>>

ProblemScanAppend ==
    /\ pc = "p_scan"
    /\ current # NoNode
    /\ ~IsProblemBoundary(current)
    /\ problem_content' = Append(problem_content, current)
    /\ current' = find_next_sibling(current)
    /\ UNCHANGED <<appVars, labelVars, link_idx, scrapeVars, images_dir, page, problem_num, netFail, hashSeed, fn, pc, problem_data,
                   found_choices, alt_idx, i, solution_data, solutions>>

ProblemScanStop ==
    /\ pc = "p_scan"
    /\ IF current = NoNode THEN TRUE ELSE IsProblemBoundary(current)
    /\ pc' = "p_walk"
    /\ UNCHANGED <<appVars, labelVars, link_idx, scrapeVars, images_dir, page, problem_num, netFail, hashSeed, fn, current,
                   problem_content, problem_data, found_choices, alt_idx, i,
                   solution_data, solutions>>

ProblemWalk ==
    /\ pc = "p_walk"
    /\ problem_data' = [problem_data EXCEPT
           !.content = WalkAll(problem_content, problem_num, s_problem)]
    /\ images_dir' = WriteImages(images_dir,
           WalkAll(problem_content, problem_num, s_problem))
    /\ pc' = "p_text"
    /\ UNCHANGED <<appVars, labelVars, link_idx, scrapeVars, page, problem_num, netFail, hashSeed, fn, current,
                   problem_content, found_choices, alt_idx, i, solution_data,
                   solutions>>

\* lines 235-264: the textual cascade
ChoicesFromText ==
    /\ pc = "p_text"
    /\ LET problem_text == problem_text_of(problem_data.content)
           k == WinningPattern(problem_text)
       IN  IF k # 0
           THEN /\ problem_data' = [problem_data EXCEPT !.answer_choices =
                       CleanMatches(re_findall(answer_patterns[k], problem_text))]
                /\ found_choices' = TRUE
                /\ pc' = "done"
                /\ UNCHANGED alt_idx
           ELSE /\ pc' = "p_alt"
                /\ alt_idx' = 1
                /\ UNCHANGED <<problem_data, found_choices>>
    /\ UNCHANGED <<appVars, labelVars, link_idx, scrapeVars, images_dir, page, problem_num, netFail, hashSeed, fn, current,
                   problem_content, i, solution_data, solutions>>

\* ChoicesFromAlt without the break of lines 294-295
ChoicesFromAlt_NoBreak ==
    /\ pc = "p_alt"
    /\ alt_idx <= Len(problem_data.content)
    /\ LET item == problem_data.content[alt_idx]
           found == IF HasChoiceMarker(item) THEN AltChoices(item.alt, 1)
                    ELSE <<>>
       IN  /\ problem_data' = [problem_data EXCEPT !.answer_choices = @ \o found]
           /\ pc' = pc
           /\ alt_idx' = alt_idx + 1
    /\ UNCHANGED <<appVars, labelVars, link_idx, scrapeVars, images_dir, page, problem_num, netFail, hashSeed, fn, current,
                   problem_content, found_choices, i, solution_data, solutions>>

\* lines 268-295: one image item of the fallback loop
ChoicesFromAlt ==
    /\ pc = "p_alt"
    /\ alt_idx <= Len(problem_data.content)
    /\ LET item == problem_data.content[alt_idx]
           found == IF HasChoiceMarker(item) THEN AltChoices(item.alt, 1)
                    ELSE <<>>
       IN  /\ problem_data' = [problem_data EXCEPT !.answer_choices = @ \o found]
           /\ IF HasChoiceMarker(item) /\ (problem_data.answer_choices \o found) # <<>>
              THEN pc' = "done" /\ UNCHANGED alt_idx
              ELSE pc' = pc /\ alt_idx' = alt_idx + 1
    /\ UNCHANGED <<appVars, labelVars, link_idx, scrapeVars, images_dir, page, problem_num, netFail, hashSeed, fn, current,
                   problem_content, found_choices, i, solution_data, solutions>>

ChoicesFromAltEnd ==
    /\ pc = "p_alt"
    /\ alt_idx > Len(problem_data.content)
    /\ pc' = "done"
    /\ UNCHANGED <<appVars, labelVars, link_idx, scrapeVars, images_dir, page, problem_num, netFail, hashSeed, fn, current,
                   problem_content, problem_data, found_choices, alt_idx, i,
                   solution_data, solutions>>

\* re.search(lit + sep + r'(\d+)', s): the number, or -1 without a match;
\* sep is \s+ when spaced and nothing otherwise
NumberAfter(s, lit, spaced) ==
    LET digits_at(p) ==
            LET q == p + Len(lit)
                w == IF spaced THEN RunEnd(s, q, Whitespace) ELSE q - 1
            IN  IF HasAt(s, p, lit) /\ (spaced => w >= q)
                   /\ RunEnd(s, w + 1, Digits) > w
                THEN SubSeq(s, w + 1, RunEnd(s, w + 1, Digits))
                ELSE <<>>
        hits == {p \in 1..Len(s) : digits_at(p) # <<>>}
    IN  IF hits = {} THEN -1 ELSE StrToInt(digits_at(Min(hits)))

\* solution_heading_of that looks for the heading text when the anchor is missing
solution_heading_of_TextFallback(n) ==
    LET solution_span == find_by_id(<<>>, "span", s_Solution_ \o IntToStr(n))
        title == s_Solution_sp \o IntToStr(n)
    IN  IF solution_span # NoNode /\ Node(Parent(solution_span)).name = "h2"
        THEN Parent(solution_span)
        ELSE FirstOf(SelectSeq(find_all(<<>>, {"h2", "h3"}),
                 LAMBDA h : \/ Strip(get_text(h)) = title
                            \/ Strip(get_text(h)) = title \o <<":">>))

\* lines 304-324: the heading of solution n, or NoNode (the loop breaks)
solution_heading_of(n) ==
    LET solution_span == find_by_id(<<>>, "span", s_Solution_ \o IntToStr(n))
        title == s_Solution_sp \o IntToStr(n)
    IN  IF solution_span = NoNode THEN NoNode
        ELSE IF Node(Parent(solution_span)).name = "h2"
        THEN Parent(solution_span)
        ELSE FirstOf(SelectSeq(find_all(<<>>, {"h2", "h3"}),
                 LAMBDA h : \/ Strip(get_text(h)) = title
                            \/ Strip(get_text(h)) = title \o <<":">>))

\* lines 336-360: the sibling that ends the region of solution n
IsSolutionBoundary(c, n) ==
    /\ Node(c).name = "h2"
    /\ LET span == find_with_id(c, "span")
           span_id == Node(span).id
           text == Lower(Strip(get_text(c)))
       IN  IF span # NoNode
           THEN IF StartsWith(span_id, s_Solution_)
                THEN NumberAfter(span_id, s_Solution_, FALSE) = n + 1
                ELSE StartsWith(span_id, s_Video) \/ StartsWith(span_id, s_See_Also)
           ELSE IF StartsWith(text, s_solution) /\ n < max_solutions
                THEN NumberAfter(text, s_solution, TRUE) = n + 1
                ELSE StartsWith(text, s_video) \/ StartsWith(text, s_see_also)

\* line 301 and the first turn of the loop
StartSolutions ==
    /\ fn = "extract_solutions" /\ pc = "start"
    /\ solutions' = <<>>
    /\ i' = 1
    /\ pc' = "s_loop"
    /\ UNCHANGED <<appVars, labelVars, link_idx, scrapeVars, images_dir, page, problem_num, netFail, hashSeed, fn, current,
                   problem_content, problem_data, found_choices, alt_idx,
                   solution_data>>

\* line 304 with "break" at 310 and 324, and the end of range()
SolutionsEnd ==
    /\ fn = "extract_solutions" /\ pc = "s_loop"
    /\ IF i > max_solutions THEN TRUE ELSE solution_heading_of(i) = NoNode
    /\ pc' = "done"
    /\ UNCHANGED <<appVars, labelVars, link_idx, scrapeVars, images_dir, page, problem_num, netFail, hashSeed, fn, current,
                   problem_content, problem_data, found_choices, alt_idx, i,
                   solution_data, solutions>>

LocateSolution ==
    /\ fn = "extract_solutions" /\ pc = "s_loop"
    /\ i <= max_solutions
    /\ solution_heading_of(i) # NoNode
    /\ solution_data' = [number |-> i, content |-> <<>>]
    /\ current' = find_next_sibling(solution_heading_of(i))
    /\ pc' = "s_scan"
    /\ UNCHANGED <<appVars, labelVars, link_idx, scrapeVars, images_dir, page, problem_num, netFail, hashSeed, fn, problem_content,
                   problem_data, found_choices, alt_idx, i, solutions>>

SolutionScanStep ==
    /\ pc = "s_scan"
    /\ current # NoNode
    /\ ~IsSolutionBoundary(current, i)
    /\ solution_data' = [solution_data EXCEPT !.content = @ \o
           extract_content_with_images(current, problem_num,
                                       s_solution_role \o IntToStr(i))]
    /\ images_dir' = WriteImages(images_dir,
           extract_content_with_images(current, problem_num,
                                       s_solution_role \o IntToStr(i)))
    /\ current' = find_next_sibling(current)
    /\ UNCHANGED <<appVars, labelVars, link_idx, scrapeVars, page, problem_num, netFail, hashSeed, fn, pc,
                   problem_content, problem_data, found_choices, alt_idx, i,
                   solutions>>

SolutionScanStop ==
    /\ pc = "s_scan"
    /\ IF current = NoNode THEN TRUE ELSE IsSolutionBoundary(current, i)
    /\ pc' = "s_end"
    /\ UNCHANGED <<appVars, labelVars, link_idx, scrapeVars, images_dir, page, problem_num, netFail, hashSeed, fn, current,
                   problem_content, problem_data, found_choices, alt_idx, i,
                   solution_data, solutions>>

\* SolutionAppend that keeps a solution without content
SolutionAppend_KeepsEmpty ==
    /\ pc = "s_end"
    /\ solutions' = Append(solutions, solution_data)
    /\ i' = i + 1
    /\ pc' = "s_loop"
    /\ UNCHANGED <<appVars, labelVars, link_idx, scrapeVars, images_dir, page, problem_num, netFail, hashSeed, fn, current,
                   problem_content, problem_data, found_choices, alt_idx,
                   solution_data>>

\* SolutionAppend that inserts at the front
SolutionAppend_Prepend ==
    /\ pc = "s_end"
    /\ solutions' = IF solution_data.content # <<>>
                    THEN <<solution_data>> \o solutions ELSE solutions
    /\ i' = i + 1
    /\ pc' = "s_loop"
    /\ UNCHANGED <<appVars, labelVars, link_idx, scrapeVars, images_dir, page, problem_num, netFail, hashSeed, fn, current,
                   problem_content, problem_data, found_choices, alt_idx,
                   solution_data>>

\* lines 367-368 and the next turn of the loop
SolutionAppend ==
    /\ pc = "s_end"
    /\ solutions' = IF solution_data.content # <<>>
                    THEN Append(solutions, solution_data) ELSE solutions
    /\ i' = i + 1
    /\ pc' = "s_loop"
    /\ UNCHANGED <<appVars, labelVars, link_idx, scrapeVars, images_dir, page, problem_num, netFail, hashSeed, fn, current,
                   problem_content, problem_data, found_choices, alt_idx,
                   solution_data>>

---------------------------------------------------------------------------
(* scrape_problem and scrape_all.                                          *)

\* fetch_page raises inside its try and returns None
FetchFailsNow(url) == calls = 2 /\ url \in fetchFail

\* FetchFails that leaves the loop at the first failed fetch
FetchFails_Break ==
    /\ pc = "sa_loop"
    /\ link_idx <= Len(problem_links)
    /\ FetchFailsNow(problem_links[link_idx].url)
    /\ link_idx' = Len(problem_links) + 1
    /\ UNCHANGED <<appVars, labelVars, scrapeVars, images_dir, page, problem_num, netFail, hashSeed, fn, pc,
                   current, problem_content, problem_data, found_choices,
                   alt_idx, i, solution_data, solutions>>

\* lines 443-447 with 375-378: the fetch of the next link fails,
\* scrape_problem returns None and nothing is appended
FetchFails ==
    /\ pc = "sa_loop"
    /\ link_idx <= Len(problem_links)
    /\ FetchFailsNow(problem_links[link_idx].url)
    /\ link_idx' = link_idx + 1
    /\ UNCHANGED <<appVars, labelVars, scrapeVars, images_dir, page, problem_num, netFail, hashSeed, fn, pc,
                   current, problem_content, problem_data, found_choices,
                   alt_idx, i, solution_data, solutions>>

\* EnterProblem that keeps the record of the previous call where lines
\* 185-189 build a new one
EnterProblem_KeepsRecord ==
    /\ pc = "sa_loop"
    /\ link_idx <= Len(problem_links)
    /\ ~FetchFailsNow(problem_links[link_idx].url)
    /\ page' = web[problem_links[link_idx].url]
    /\ problem_num' = problem_links[link_idx].num
    /\ fn' = "extract_problem"
    /\ pc' = "start"
    /\ current' = NoNode
    /\ problem_content' = <<>>
    /\ problem_data' = [problem_data EXCEPT
           !.number = problem_links[link_idx].num]
    /\ found_choices' = FALSE
    /\ alt_idx' = 0
    /\ i' = 1
    /\ solution_data' = [number |-> 0, content |-> <<>>]
    /\ solutions' = <<>>
    /\ UNCHANGED <<appVars, labelVars, link_idx, scrapeVars, images_dir, netFail, hashSeed>>

\* lines 443-444 with 375-380: the page is fetched and extract_problem is
\* called with fresh locals
EnterProblem ==
    /\ pc = "sa_loop"
    /\ link_idx <= Len(problem_links)
    /\ ~FetchFailsNow(problem_links[link_idx].url)
    /\ page' = web[problem_links[link_idx].url]
    /\ problem_num' = problem_links[link_idx].num
    /\ fn' = "extract_problem"
    /\ pc' = "start"
    /\ current' = NoNode
    /\ problem_content' = <<>>
    /\ problem_data' = [number |-> problem_links[link_idx].num,
                        content |-> <<>>, answer_choices |-> <<>>]
    /\ found_choices' = FALSE
    /\ alt_idx' = 0
    /\ i' = 1
    /\ solution_data' = [number |-> 0, content |-> <<>>]
    /\ solutions' = <<>>
    /\ UNCHANGED <<appVars, labelVars, link_idx, scrapeVars, images_dir, netFail, hashSeed>>

\* line 381: extract_problem has returned, extract_solutions is called
CallSolutions ==
    /\ calls # 0
    /\ fn = "extract_problem" /\ pc = "done"
    /\ fn' = "extract_solutions"
    /\ pc' = "start"
    /\ UNCHANGED <<appVars, labelVars, link_idx, scrapeVars, images_dir, page, problem_num, netFail, hashSeed,
                   current, problem_content, problem_data, found_choices,
                   alt_idx, i, solution_data, solutions>>

\* RecordProblem that also writes the list to the file after each page
RecordProblem_Flushes ==
    /\ calls # 0
    /\ fn = "extract_solutions" /\ pc = "done"
    /\ all_problems' = Append(all_problems,
           [number |-> problem_data.number,
            content |-> problem_data.content,
            answer_choices |-> problem_data.answer_choices,
            solutions |-> solutions,
            year |-> 2024, contest_type |-> "AMC8", contest_name |-> "AMC 8"])
    /\ output_file' = Append(output_file, all_problems')
    /\ link_idx' = link_idx + 1
    /\ pc' = "sa_loop"
    /\ UNCHANGED <<appVars, labelVars, calls, web, fetchFail, problem_links, reference,
                   images_dir, page,
                   problem_num, netFail, hashSeed, fn, current,
                   problem_content, problem_data, found_choices, alt_idx, i,
                   solution_data, solutions>>

\* lines 382-387 and 445-447: the record of the page is completed and
\* appended
RecordProblem ==
    /\ calls # 0
    /\ fn = "extract_solutions" /\ pc = "done"
    /\ all_problems' = Append(all_problems,
           [number |-> problem_data.number,
            content |-> problem_data.content,
            answer_choices |-> problem_data.answer_choices,
            solutions |-> solutions,
            year |-> 2024, contest_type |-> "AMC8", contest_name |-> "AMC 8"])
    /\ link_idx' = link_idx + 1
    /\ pc' = "sa_loop"
    /\ UNCHANGED <<appVars, labelVars, calls, web, fetchFail, problem_links, reference, output_file,
                   images_dir, page,
                   problem_num, netFail, hashSeed, fn, current,
                   problem_content, problem_data, found_choices, alt_idx, i,
                   solution_data, solutions>>

\* lines 449-465: the loop is over, the list is saved and returned
ScrapeReturn ==
    /\ pc = "sa_loop"
    /\ link_idx > Len(problem_links)
    /\ output_file' = Append(output_file, all_problems)
    /\ pc' = "sa_done"
    /\ UNCHANGED <<appVars, labelVars, link_idx, calls, web, fetchFail, problem_links, all_problems,
                   reference, images_dir, page, problem_num, netFail, hashSeed,
                   fn, current, problem_content, problem_data, found_choices,
                   alt_idx, i, solution_data, solutions>>

\* lines 442-447: an exception that nothing catches (extract_problem and
\* extract_solutions have no try, time.sleep can be interrupted) ends
\* scrape_all, and the process, before line 449
Abort ==
    /\ calls # 0
    /\ pc \notin {"sa_done", "aborted"}
    /\ pc' = "aborted"
    /\ UNCHANGED <<appVars, labelVars, link_idx, scrapeVars, images_dir, page, problem_num, netFail,
                   hashSeed, fn, current, problem_content, problem_data,
                   found_choices, alt_idx, i, solution_data, solutions>>

\* scrape_all is called again on the same object (lines 438-442), now with
\* the fetches of fetchFail failing
ScrapeAgain ==
    /\ pc = "sa_done"
    /\ calls = 1
    /\ calls' = 2
    /\ reference' = all_problems
    /\ all_problems' = <<>>
    /\ link_idx' = 1
    /\ pc' = "sa_loop"
    /\ UNCHANGED <<appVars, labelVars, web, fetchFail, problem_links, output_file, images_dir, page,
                   problem_num, netFail,
                   hashSeed, fn, current, problem_content, problem_data,
                   found_choices, alt_idx, i, solution_data, solutions>>

---------------------------------------------------------------------------
(* src/app.py: login, logout and the endpoints behind login_required.      *)

\* the routes decorated with login_required
ProtectedEndpoints ==
    {"/api/problems", "/api/problem/<key>", "/api/image/<path>",
     "/api/filters", "/api/worksheet/preview", "/api/worksheet/export"}

\* credentials.json: a werkzeug hash of pw1 for ann, the plain text pw2
\* for bob
credentials ==
    [u \in {"ann", "bob"} |->
        IF u = "ann" THEN [is_hash |-> TRUE, of |-> "pw1"]
        ELSE [is_hash |-> FALSE, of |-> "pw2"]]

NoSession == [logged_in |-> FALSE, username |-> ""]

\* lines 101-133: POST /api/login
Login ==
    /\ n_req < MaxRequests
    /\ \E username \in {"", "ann", "bob", "eve"}, password \in {"", "pw1", "pw2"} :
        LET missing == username = "" \/ password = ""
            stored  == credentials[username]
            ok == /\ ~missing
                  /\ username \in DOMAIN credentials
                  /\ IF stored.is_hash
                     THEN stored.of = password  \* check_password_hash
                     ELSE stored.of = password  \* stored_hash == password
            status == IF missing THEN 400 ELSE IF ok THEN 200 ELSE 401
        IN  /\ session' = IF ok THEN [logged_in |-> TRUE, username |-> username]
                          ELSE session
            /\ last_request' = [endpoint |-> "/api/login", status |-> status,
                                ran |-> FALSE]
            /\ auth_hist' = IF status = 200 THEN "in" ELSE auth_hist
    /\ n_req' = n_req + 1
    /\ UNCHANGED <<scraperVars, labelVars>>

\* Logout that leaves the session as it is
Logout_KeepsSession ==
    /\ n_req < MaxRequests
    /\ session' = session
    /\ last_request' = [endpoint |-> "/api/logout", status |-> 200, ran |-> FALSE]
    /\ auth_hist' = IF auth_hist = "never" THEN "never" ELSE "out"
    /\ n_req' = n_req + 1
    /\ UNCHANGED <<scraperVars, labelVars>>

\* lines 135-138: POST /api/logout
Logout ==
    /\ n_req < MaxRequests
    /\ session' = NoSession
    /\ last_request' = [endpoint |-> "/api/logout", status |-> 200, ran |-> FALSE]
    /\ auth_hist' = IF auth_hist = "never" THEN "never" ELSE "out"
    /\ n_req' = n_req + 1
    /\ UNCHANGED <<scraperVars, labelVars>>

\* lines 25-31 around a handler: a request to a protected endpoint; the
\* handler, when it runs, answers 200 or with an error of its own
Request ==
    /\ n_req < MaxRequests
    /\ \E endpoint \in ProtectedEndpoints :
        IF ~session.logged_in
        THEN last_request' = [endpoint |-> endpoint, status |-> 401, ran |-> FALSE]
        ELSE \E status \in {200, 404} :
                last_request' = [endpoint |-> endpoint, status |-> status,
                                 ran |-> TRUE]
    /\ n_req' = n_req + 1
    /\ UNCHANGED <<session, auth_hist, scraperVars, labelVars>>

---------------------------------------------------------------------------
(* src/label_problems.py: ProblemLabeler over runs and interruptions.      *)

\* the keys of the screenshots found, in the sorted order of line 285
ProblemKeys == 1..MaxProblems
\* what get_categories returns as primary category
Categories == {"Algebra", "Error"}
NoLabels == [k \in {} |-> "Error"]

\* lines 211 and 215-224, then 300-312: a run starts; load_labels reads the
\* file, or starts fresh when it cannot be parsed
StartRun ==
    /\ lpc = "idle"
    /\ n_runs < MaxRuns
    /\ labels' = IF labels_file.parses THEN labels_file.data ELSE NoLabels
    /\ screenshot_idx' = 1
    /\ lpc' = "loop"
    /\ n_runs' = n_runs + 1
    /\ UNCHANGED <<labels_file, persisted, scraperVars, appVars>>

\* lines 314-321: the key is in the labels map
SkipLabeled ==
    /\ lpc = "loop"
    /\ screenshot_idx \in ProblemKeys
    /\ screenshot_idx \in DOMAIN labels
    /\ screenshot_idx' = screenshot_idx + 1
    /\ UNCHANGED <<labels, labels_file, lpc, persisted, n_runs, scraperVars,
                   appVars>>

\* lines 323-334: the screenshot is sent to the API and the answer, a
\* category or "Error", is put in the map
LabelProblem ==
    /\ lpc = "loop"
    /\ screenshot_idx \in ProblemKeys
    /\ screenshot_idx \notin DOMAIN labels
    /\ \E primary \in Categories :
           labels' = [k \in DOMAIN labels \cup {screenshot_idx} |->
                         IF k = screenshot_idx THEN primary ELSE labels[k]]
    /\ lpc' = "save"
    /\ UNCHANGED <<labels_file, screenshot_idx, persisted, n_runs,
                   scraperVars, appVars>>

\* line 229: open(self.labels_file, 'w') empties the file
SaveOpen ==
    /\ lpc = "save"
    /\ labels_file' = [parses |-> FALSE, data |-> NoLabels]
    /\ lpc' = "dump"
    /\ UNCHANGED <<labels, screenshot_idx, persisted, n_runs, scraperVars,
                   appVars>>

\* line 230 and 339-345: json.dump has written the map and the file is
\* closed; the loop goes on
SaveDump ==
    /\ lpc = "dump"
    /\ labels_file' = [parses |-> TRUE, data |-> labels]
    /\ persisted' = [k \in DOMAIN labels |->
                        IF k \in DOMAIN persisted THEN persisted[k]
                        ELSE labels[k]]
    /\ screenshot_idx' = screenshot_idx + 1
    /\ lpc' = "loop"
    /\ UNCHANGED <<labels, n_runs, scraperVars, appVars>>

\* lines 347-348: the loop is over
EndRun ==
    /\ lpc = "loop"
    /\ screenshot_idx \notin ProblemKeys
    /\ lpc' = "idle"
    /\ UNCHANGED <<labels, labels_file, screenshot_idx, persisted, n_runs,
                   scraperVars, appVars>>

\* the process is interrupted (Ctrl-C, kill) wherever it is
Interrupt ==
    /\ lpc \in {"loop", "save", "dump"}
    /\ lpc' = "idle"
    /\ UNCHANGED <<labels, labels_file, screenshot_idx, persisted, n_runs,
                   scraperVars, appVars>>

---------------------------------------------------------------------------
(* The sample pages.                                                       *)

t_C1 == <<"T", "h", "e", " ", "a", "n", "s", "w", "e", "r", " ", "i", "s", " ", "$", "\\", "t", "e", "x", "t", "b", "f", "{", "(", "A", ")", "}", "\\", " ", "5", " ", "\\", "q", "q", "u", "a", "d", " ", "\\", "t", "e", "x", "t", "b", "f", "{", "(", "B", ")", "}", "\\", " ", "1", "0", "$">>
t_bold2 == <<"\\", "t", "e", "x", "t", "b", "f", "{", "(", "A", ")", "}", "\\", " ", "5", " ", "\\", "q", "q", "u", "a", "d", " ", "\\", "t", "e", "x", "t", "b", "f", "{", "(", "B", ")", "}", "\\", " ", "1", "0">>
t_plain5 == <<"(", "A", ")", " ", "1", " ", "\\", "q", "q", "u", "a", "d", " ", "(", "B", ")", " ", "2", " ", "\\", "q", "q", "u", "a", "d", " ", "(", "C", ")", " ", "3", " ", "\\", "q", "q", "u", "a", "d", " ", "(", "D", ")", " ", "4", " ", "\\", "q", "q", "u", "a", "d", " ", "(", "E", ")", " ", "5">>
t_prose == <<" ", "F", "i", "n", "d", " ", "x", ".", "\n">>
t_blank == <<"\n", " ", " ">>
t_emptyA == <<"(", "A", ")", " ", "$", "$">>
t_plainA == <<"(", "A", ")", " ", "7">>
alt_C2 == <<"\\", "t", "e", "x", "t", "b", "f", "{", "(", "A", ")", "}", "\\", " ", "3", "\\", "q", "q", "u", "a", "d", "\\", "t", "e", "x", "t", "b", "f", "{", "(", "B", ")", "}", "\\", " ", "4">>
alt_other == <<"\\", "t", "e", "x", "t", "b", "f", "{", "(", "A", ")", "}", "\\", " ", "1", "\\", "q", "q", "u", "a", "d", "\\", "t", "e", "x", "t", "b", "f", "{", "(", "C", ")", "}", "\\", " ", "9">>
alt_math == <<"x", "^", "2">>
src_rel == <<"/", "a", ".", "p", "n", "g">>
src_b == <<"/", "/", "l", ".", "c", "o", "m", "/", "b", ".", "g", "i", "f">>
src_c == <<"/", "c", ".", "p", "n", "g">>
t_Problem_padded == <<" ", "P", "r", "o", "b", "l", "e", "m", "\n">>
t_See_also == <<"S", "e", "e", " ", "a", "l", "s", "o">>
t_Diagram == <<"D", "i", "a", "g", "r", "a", "m">>
t_x == <<"x">>

SeqsUpTo(V, n) == UNION {[1..m -> V] : m \in 0..n}

RECURSIVE Flatten(_)
Flatten(seqs) == IF seqs = <<>> THEN <<>> ELSE Head(seqs) \o Flatten(Tail(seqs))

Document(ks) == Tag("[document]", NoneStr, ks)

\* <h2><span id="Problem">Problem</span></h2>, the wiki's heading
hProblem == Tag("h2", NoneStr, <<Tag("span", s_Problem, <<TextNode(s_Problem)>>)>>)
\* a heading found only by its text
hProblemText == Tag("h2", NoneStr, <<TextNode(t_Problem_padded)>>)
\* the anchor as a direct child of the container
spanProblem == Tag("span", s_Problem, <<>>)
para == Tag("p", NoneStr, <<TextNode(t_x)>>)
hSolution(n) ==
    Tag("h2", NoneStr, <<Tag("span", s_Solution_ \o IntToStr(n),
                             <<TextNode(s_Solution_sp \o IntToStr(n))>>)>>)
hSolutionText(n) == Tag("h2", NoneStr, <<TextNode(s_Solution_sp \o IntToStr(n))>>)
hSeeAlso == Tag("h2", NoneStr, <<Tag("span", s_See_Also, <<TextNode(t_See_also)>>)>>)
h3SeeAlso == Tag("h3", NoneStr, <<TextNode(t_See_also)>>)
spanSolution == Tag("span", s_Solution_ \o IntToStr(1), <<>>)
hDiagram == Tag("h2", NoneStr, <<TextNode(t_Diagram)>>)

\* children of the problem paragraph in the answer-choice pages
ChildVocab ==
    {TextNode(t_C1), TextNode(t_bold2), TextNode(t_plain5), TextNode(t_prose),
     TextNode(t_blank), TextNode(t_emptyA),
     Img(src_rel, alt_C2), Img(src_b, alt_math), Img(src_b, alt_other),
     Img(NoneStr, alt_C2),
     Tag("b", NoneStr, <<TextNode(t_plainA)>>)}

ChoicePages ==
    {Document(<<Tag("div", NoneStr, <<hProblem, Tag("p", NoneStr, ks)>>)>>) :
        ks \in SeqsUpTo(ChildVocab, MaxItems)}

\* what stands where the Problem heading is expected
HeadVocab == {hProblem, hProblemText, spanProblem, hDiagram}
\* the siblings after it under the container in the segmentation pages
SegVocab == {para, hSolution(1), h3SeeAlso, spanSolution, hDiagram}

SegPages ==
    {Document(<<Tag(box, NoneStr, <<h>> \o ks)>>) :
        box \in {"div", "body"}, h \in HeadVocab,
        ks \in SeqsUpTo(SegVocab, MaxSiblings)}

\* sections (a heading, then a paragraph or nothing) of the solution pages
SolVocab ==
    {<<h>> \o body :
        h \in {hSolution(1), hSolution(2), hSolution(3), hSolutionText(2), hSeeAlso},
        body \in {<<>>, <<para>>}}

\* ... and pages with the max_solutions anchors, where a further heading
\* follows the last solution: a fourth solution named by its text or by its
\* anchor, or the "See also" heading with the id MediaWiki gives it; and a
\* page with one solution of three images
SolPages ==
    {Document(<<Tag("div", NoneStr, Flatten(secs))>>) :
        secs \in SeqsUpTo(SolVocab, MaxSections)}
    \cup
    {Document(<<Tag("div", NoneStr,
         <<hSolution(1), para, hSolution(2), hSolution(3), para, h, para>>)>>) :
        h \in {hSolutionText(4), hSolution(4),
               Tag("h2", NoneStr,
                   <<Tag("span", <<"S", "e", "e", "_", "a", "l", "s", "o">>,
                         <<TextNode(t_See_also)>>)>>)}}
    \cup
    {Document(<<Tag("div", NoneStr,
         <<hSolution(1),
           Tag("p", NoneStr, <<Img(src_rel, alt_math), Img(src_c, alt_math),
                               Img(src_b, alt_math)>>)>>)>>)}

\* children of the paragraph in the tree-walk pages
br == Tag("br", NoneStr, <<>>)
KidVocab ==
    {TextNode(t_prose), br,
     Img(src_rel, alt_math), Img(NoneStr, alt_math), ImgLazy(src_b, alt_math),
     Tag("a", NoneStr, <<Img(src_b, alt_math)>>),
     Tag("b", NoneStr, <<TextNode(t_x)>>),
     Tag("b", NoneStr, <<Img(src_rel, alt_math)>>),
     Tag("span", NoneStr, <<TextNode(t_x), br>>)}

\* what stands between the heading and the paragraph: nothing, an image or
\* a linked image directly under the container, or a list
LeadVocab ==
    {<<>>,
     <<Img(src_rel, alt_math)>>,
     <<Tag("a", NoneStr, <<Img(src_rel, alt_math)>>)>>,
     <<Tag("ul", NoneStr, <<Tag("li", NoneStr, <<TextNode(t_x)>>)>>)>>}

WalkPages ==
    {Document(<<Tag("div", NoneStr,
                    <<hProblem>> \o lead \o <<Tag("p", NoneStr, ks)>>)>>) :
        lead \in LeadVocab, ks \in SeqsUpTo(KidVocab, MaxKids)}

\* two solutions whose paragraphs vary, the second after an image
WalkSolPages ==
    {Document(<<Tag("div", NoneStr,
                    <<hSolution(1), Tag("p", NoneStr, ks), hSolution(2),
                      Img(src_rel, alt_math), Tag("p", NoneStr, ks)>>)>>) :
        ks \in SeqsUpTo(KidVocab, MaxKids)}

\* the pages behind the problem URLs: one with images in the problem and
\* in the solution, the same without the images that cannot be resolved,
\* one with text choices and two solutions, one with no anchor at all
ScrapePages ==
    {Document(<<Tag("div", NoneStr,
         <<hProblem,
           Tag("p", NoneStr, <<TextNode(t_prose), Img(src_rel, alt_C2),
                               Img(NoneStr, alt_math), Img(src_b, alt_other),
                               Tag("a", NoneStr, <<TextNode(t_x),
                                   Img(src_rel, alt_math)>>)>>),
           hSolution(1),
           Tag("p", NoneStr, <<Img(src_rel, alt_math), TextNode(t_x)>>)>>)>>),
     Document(<<Tag("div", NoneStr,
         <<hProblem,
           Tag("p", NoneStr, <<TextNode(t_prose), Img(src_b, alt_other),
                               Tag("a", NoneStr, <<TextNode(t_x)>>)>>),
           hSolution(1),
           Tag("p", NoneStr, <<TextNode(t_x)>>)>>)>>),
     Document(<<Tag("div", NoneStr,
         <<hProblem, Tag("p", NoneStr, <<TextNode(t_plain5)>>),
           hSolution(1), para, hSolution(2), para>>)>>),
     Document(<<Tag("div", NoneStr,
         <<hProblem,
           Tag("p", NoneStr, <<TextNode(t_prose), Img(src_b, alt_math)>>)>>)>>),
     Document(<<Tag("div", NoneStr, <<hDiagram, para>>)>>)}

\* the link lists: n links with URLs 1..n, all for problem 25 or for the
\* n problems up to 25 (line 412 sorts the links by problem number)
LinkLists ==
    UNION {{[k \in 1..n |-> [num |-> 25, url |-> k]],
            [k \in 1..n |-> [num |-> 25 - n + k, url |-> k]]} :
              n \in 0..MaxLinks}

ProblemNums == {1, 25}
ImageUrls == {AbsUrl(src_rel), AbsUrl(src_b), AbsUrl(src_c)}
\* hash() of a str is salted per process; the residues of one process
HashSeeds ==
    {[u \in ImageUrls |-> IF u = AbsUrl(src_rel) THEN 4321
                          ELSE IF u = AbsUrl(src_b) THEN 17 ELSE 99]}

InitLocals ==
    /\ pc = "start"
    /\ current = NoNode
    /\ problem_content = <<>>
    /\ problem_data = [number |-> problem_num, content |-> <<>>,
                       answer_choices |-> <<>>]
    /\ found_choices = FALSE
    /\ alt_idx = 0
    /\ i = 1
    /\ solution_data = [number |-> 0, content |-> <<>>]
    /\ solutions = <<>>

\* the web app has served nothing and the labeler has not run
ServicesIdle ==
    /\ session = NoSession
    /\ last_request = [endpoint |-> "", status |-> 0, ran |-> FALSE]
    /\ auth_hist = "never"
    /\ n_req = 0
    /\ labels = NoLabels
    /\ labels_file = [parses |-> TRUE, data |-> NoLabels]
    /\ lpc = "idle"
    /\ screenshot_idx = 1
    /\ persisted = NoLabels
    /\ n_runs = 0

\* one function is called alone: no scrape_all around it
InitDirect ==
    /\ ServicesIdle
    /\ calls = 0
    /\ web = <<>>
    /\ fetchFail = {}
    /\ problem_links = <<>>
    /\ link_idx = 0
    /\ all_problems = <<>>
    /\ reference = <<>>
    /\ output_file = <<>>
    /\ images_dir = {}

\* scrape_all at line 442, after get_problem_links returned
InitScrape ==
    /\ ServicesIdle
    /\ calls = 1
    /\ problem_links \in LinkLists
    /\ web \in [1..Len(problem_links) -> ScrapePages]
    /\ fetchFail \in SUBSET (1..Len(problem_links))
    /\ link_idx = 1
    /\ all_problems = <<>>
    /\ reference = <<>>
    /\ output_file = <<>>
    /\ images_dir = {}
    /\ fn = "extract_problem"
    /\ page = Document(<<>>)
    /\ problem_num = 0
    /\ netFail = {AbsUrl(src_rel)}
    /\ hashSeed \in HashSeeds
    /\ pc = "sa_loop"
    /\ current = NoNode
    /\ problem_content = <<>>
    /\ problem_data = [number |-> 0, content |-> <<>>, answer_choices |-> <<>>]
    /\ found_choices = FALSE
    /\ alt_idx = 0
    /\ i = 1
    /\ solution_data = [number |-> 0, content |-> <<>>]
    /\ solutions = <<>>

\* extract_problem on a page whose problem paragraph varies
InitChoices ==
    /\ fn = "extract_problem"
    /\ page \in ChoicePages
    /\ problem_num \in ProblemNums
    /\ netFail \in {{}, {AbsUrl(src_rel)}}
    /\ hashSeed \in HashSeeds
    /\ InitLocals
    /\ InitDirect

\* extract_problem on a page whose sibling sequence varies
InitSegment ==
    /\ fn = "extract_problem"
    /\ page \in SegPages
    /\ problem_num \in ProblemNums
    /\ netFail = {}
    /\ hashSeed \in HashSeeds
    /\ InitLocals
    /\ InitDirect

\* extract_solutions on a page of solution sections
InitSolutions ==
    /\ fn = "extract_solutions"
    /\ page \in SolPages
    /\ problem_num \in ProblemNums
    /\ netFail = {}
    \* for the page with images also a process where the residues of two
    \* URLs are equal
    /\ hashSeed \in IF find(<<>>, "img") = NoNode THEN HashSeeds
                     ELSE HashSeeds \cup
                          {[u \in ImageUrls |-> IF u = AbsUrl(src_b) THEN 17
                                                ELSE 4321]}
    /\ InitLocals
    /\ InitDirect

\* either function on a page whose paragraph children vary
InitWalk ==
    /\ \/ fn = "extract_problem" /\ page \in WalkPages
       \/ fn = "extract_solutions" /\ page \in WalkSolPages
    /\ problem_num = 25
    /\ netFail \in {{}, {AbsUrl(src_rel)}}
    /\ hashSeed \in HashSeeds
    /\ InitLocals
    /\ InitDirect

NextProblem ==
    \/ LocateProblem
    \/ ProblemScanAppend
    \/ ProblemScanStop
    \/ ProblemWalk
    \/ ChoicesFromText
    \/ ChoicesFromAlt
    \/ ChoicesFromAltEnd

NextSolutions ==
    \/ StartSolutions
    \/ SolutionsEnd
    \/ LocateSolution
    \/ SolutionScanStep
    \/ SolutionScanStop
    \/ SolutionAppend

SpecChoices == InitChoices /\ [][NextProblem]_vars
SpecSegment == InitSegment /\ [][NextProblem]_vars
SpecSolutions == InitSolutions /\ [][NextSolutions]_vars

NextCall == NextProblem \/ NextSolutions

NextScrape ==
    \/ FetchFails
    \/ EnterProblem
    \/ CallSolutions
    \/ RecordProblem
    \/ ScrapeReturn
    \/ ScrapeAgain
    \/ Abort

SpecWalk == InitWalk /\ [][NextCall]_vars
\* every page family, one function called alone
SpecCalls ==
    (InitChoices \/ InitSegment \/ InitSolutions \/ InitWalk)
        /\ [][NextCall]_vars
\* the two families whose sibling sequences vary, one function called alone
SpecLoops ==
    (InitSegment \/ InitSolutions) /\ [][NextCall]_vars
SpecScrape == InitScrape /\ [][NextCall \/ NextScrape]_vars

\* the scraper is not running
ScraperIdle ==
    /\ fn = "extract_problem"
    /\ page = Document(<<>>)
    /\ problem_num = 1
    /\ netFail = {}
    /\ hashSeed \in HashSeeds
    /\ InitLocals
    /\ calls = 0
    /\ web = <<>>
    /\ fetchFail = {}
    /\ problem_links = <<>>
    /\ link_idx = 0
    /\ all_problems = <<>>
    /\ reference = <<>>
    /\ output_file = <<>>
    /\ images_dir = {}

\* the app starts: app.secret_key is new, so no client has a session
InitApp == ScraperIdle /\ ServicesIdle

\* before the first run: the labels file holds the labels of earlier
\* work, any category or "Error" for any of the keys
InitLabel ==
    /\ ScraperIdle
    /\ session = NoSession
    /\ last_request = [endpoint |-> "", status |-> 0, ran |-> FALSE]
    /\ auth_hist = "never"
    /\ n_req = 0
    /\ labels = NoLabels
    /\ \E S \in SUBSET ProblemKeys : \E d \in [S -> Categories] :
           /\ labels_file = [parses |-> TRUE, data |-> d]
           /\ persisted = d
    /\ lpc = "idle"
    /\ screenshot_idx = 1
    /\ n_runs = 0

NextApp == Login \/ Logout \/ Request

NextLabel ==
    \/ StartRun
    \/ SkipLabeled
    \/ LabelProblem
    \/ SaveOpen
    \/ SaveDump
    \/ EndRun
    \/ Interrupt

SpecApp == InitApp /\ [][NextApp]_vars
SpecLabel == InitLabel /\ [][NextLabel]_vars

Init ==
    \/ InitChoices \/ InitSegment \/ InitSolutions \/ InitWalk \/ InitScrape
    \/ InitApp \/ InitLabel
Next == NextCall \/ NextScrape \/ NextApp \/ NextLabel
Spec == Init /\ [][Next]_vars

---------------------------------------------------------------------------
(* The claims.                                                             *)

Range(f) == {f[k] : k \in DOMAIN f}
Returned == fn = "extract_problem" /\ pc = "done"
content_items == problem_data.content
answer_choices == problem_data.answer_choices

\* C1: for the problem text `The answer is $\textbf{(A)}\ 5 \qquad
\* \textbf{(B)}\ 10$` extract_problem returns exactly the two choices
\* A "5" and B "10", in that order.
C1_BothChoicesOfTheBlock ==
    (Returned /\ problem_text_of(content_items) = t_C1)
        => answer_choices = <<Choice("A", <<"5">>, ""),
                              Choice("B", <<"1", "0">>, "")>>

\* the case of the image fallback: the image item with the alt text is the
\* first item whose alt text has a choice marker
C2_Case ==
    /\ Returned
    /\ WinningPattern(problem_text_of(content_items)) = 0
    /\ \E k \in 1..Len(content_items) :
           /\ content_items[k].type = "image"
           /\ content_items[k].alt = alt_C2
           /\ \A j \in 1..(k - 1) : ~HasChoiceMarker(content_items[j])

HasSolutionAnchor(n) ==
    \E q \in Range(Descendants(<<>>)) :
        Node(q).name = "span" /\ Node(q).id = s_Solution_ \o IntToStr(n)

\* C3: when the page has no anchor (span) with id Solution_n, no solution
\* numbered n or more is returned, whatever later anchors the page has.
C3_GapStopsScan ==
    \A n \in 1..max_solutions :
        ~HasSolutionAnchor(n)
            => \A k \in 1..Len(solutions) : solutions[k].number < n

\* witness of C3: Solution_2 is missing, Solution_3 is there, and the scan
\* is over with solution 1 returned
C3_Witness ==
    /\ fn = "extract_solutions" /\ pc = "done"
    /\ ~HasSolutionAnchor(2) /\ HasSolutionAnchor(3)
    /\ Len(solutions) = 1

\* a non-empty string with no whitespace at either end
Trimmed(t) ==
    t # <<>> /\ t[1] \notin Whitespace /\ t[Len(t)] \notin Whitespace

\* C4: every text item that extract_content_with_images puts into a
\* content list is non-empty and neither starts nor ends with whitespace.
C4_TextItemsTrimmed ==
    \A it \in Range(content_items) : it.type = "text" => Trimmed(it.content)

\* witness of C4: a returned text item that is shorter than the string of
\* its node, beside a string node that left no item
C4_Witness ==
    /\ Returned
    /\ \E it \in Range(content_items) :
           it.type = "text" /\ Node(it.node).text # it.content
    /\ \E q \in Range(Descendants(<<>>)) :
           /\ ~IsTag(Node(q)) /\ Strip(Node(q).text) = <<>>

\* the elements that end the problem region
C5_IsBoundary(b) ==
    \/ /\ Node(b).name \in {"h2", "h3"}
       /\ \/ Contains(Lower(get_text(b)), s_solution)
          \/ Contains(Lower(get_text(b)), s_see_also)
          \/ Contains(Lower(get_text(b)), s_video_solution)
    \/ /\ Node(b).name = "span"
       /\ Node(b).id # NoneStr
       /\ StartsWith(Node(b).id, s_Solution)

\* the heading element and the elements around its anchor
AncestorsOrSelf(a) == {SubSeq(a, 1, n) : n \in 1..Len(a)}
FollowingSiblings(a) ==
    {Parent(a) \o <<k>> : k \in (a[Len(a)] + 1)..Len(Node(Parent(a)).kids)}
\* node q is sibling b, a sibling after b, or below one of them
AtOrAfter(q, b) ==
    /\ Len(q) >= Len(b)
    /\ SubSeq(q, 1, Len(b) - 1) = Parent(b)
    /\ q[Len(b)] >= b[Len(b)]

C5_Boundaries ==
    {b \in UNION {FollowingSiblings(a) : a \in AncestorsOrSelf(problem_heading_of)} :
        C5_IsBoundary(b)}

\* C5: the problem content has no item from the first sibling after the
\* Problem heading that is an h2/h3 whose text contains "solution",
\* "see also" or "video solution" (any case) or a span whose id begins
\* with "Solution", nor from a sibling after it.
C5_RegionEndsAtBoundary ==
    (fn = "extract_problem" /\ problem_heading_of # NoNode)
        => \A it \in Range(content_items) :
               \A b \in C5_Boundaries : ~AtOrAfter(it.node, b)

\* witness of C5: content was collected, and a boundary with a sibling
\* after it follows
C5_Witness ==
    /\ Returned
    /\ problem_heading_of # NoNode
    /\ content_items # <<>>
    /\ \E b \in C5_Boundaries : b[Len(b)] < Len(Node(Parent(b)).kids)

\* the page has nothing extract_problem takes for the Problem heading
C6_NoAnchor ==
    \A q \in Range(Descendants(<<>>)) :
        /\ ~(Node(q).name = "span" /\ Node(q).id = s_Problem)
        /\ ~(/\ Node(q).name \in {"h2", "h3", "span"}
             /\ Lower(Strip(get_text(q))) = s_problem)

\* C6: on a page with no span with id "Problem" and no h2/h3/span whose
\* text is "problem" (any case), extract_problem returns the record with
\* the given number, content [] and answer_choices [].
C6_EmptyRecordWithoutAnchor ==
    (Returned /\ C6_NoAnchor)
        => problem_data = [number |-> problem_num, content |-> <<>>,
                           answer_choices |-> <<>>]

\* witness of C6: such a page with headings and paragraphs on it
C6_Witness ==
    /\ Returned /\ C6_NoAnchor
    /\ \E q \in Range(Descendants(<<>>)) : Node(q).name = "h2"
    /\ \E q \in Range(Descendants(<<>>)) : Node(q).name = "p"

\* the siblings from c on
SiblingsLeft(c) ==
    IF c = NoNode THEN 0 ELSE Len(Node(Parent(c)).kids) - c[Len(c)] + 1

\* more than the siblings of any node and than the items of any walk
Weight == Len(Descendants(<<>>)) + 2

Measure ==
    IF fn = "extract_problem"
    THEN CASE pc = "start"  -> 5 * Weight
           [] pc = "p_scan" -> 4 * Weight + SiblingsLeft(current)
           [] pc = "p_walk" -> 3 * Weight
           [] pc = "p_text" -> 2 * Weight
           [] pc = "p_alt"  -> Weight + Len(content_items) + 1 - alt_idx
           [] OTHER         -> 0
    ELSE CASE pc = "start"  -> 3 * Weight * (max_solutions + 1)
           [] pc = "s_loop" -> 3 * Weight * (max_solutions + 1 - i) + 2 * Weight
           [] pc = "s_scan" -> 3 * Weight * (max_solutions + 1 - i) + Weight
                                   + SiblingsLeft(current)
           [] pc = "s_end"  -> 3 * Weight * (max_solutions + 1 - i)
           [] OTHER         -> 0

\* C7: both functions terminate: every step lowers a measure that is a
\* natural number (each sibling scan moves forward, the image loop moves
\* forward, the solution loop counts up to max_solutions at most).
C7_EveryStepLowersTheMeasure ==
    [][/\ Measure' < Measure
       /\ Measure' >= 0
       /\ i' <= max_solutions + 1]_vars

\* witness of C7: extract_solutions returned after all its turns, the last
\* with a sibling scan that collected content
C7_Witness ==
    /\ fn = "extract_solutions" /\ pc = "done"
    /\ i = max_solutions + 1
    /\ Len(solutions) = max_solutions

\* C8: the letters of the returned answer choices are pairwise distinct.
C8_LettersDistinct ==
    \A j, k \in 1..Len(answer_choices) :
        j # k => answer_choices[j].letter # answer_choices[k].letter

\* C9: at most five answer choices are returned, each with a letter A..E.
C9_AtMostFiveChoices ==
    /\ Len(answer_choices) <= 5
    /\ \A k \in 1..Len(answer_choices) : answer_choices[k].letter \in LetterSet

\* C10: the numbers of the returned solutions increase strictly in list
\* order, each is in 1..max_solutions, and there are at most max_solutions.
C10_NumbersIncrease ==
    /\ Len(solutions) <= max_solutions
    /\ \A k \in 1..Len(solutions) : solutions[k].number \in 1..max_solutions
    /\ \A j, k \in 1..Len(solutions) :
           j < k => solutions[j].number < solutions[k].number

\* witness of C10: max_solutions solutions were returned
C10_Witness ==
    /\ fn = "extract_solutions" /\ pc = "done"
    /\ Len(solutions) = max_solutions

\* extract_problem has walked the problem region
Walked == fn = "extract_problem" /\ pc \in {"p_text", "p_alt", "done"}
\* node q is node d or lies below it
AtOrBelow(q, d) == Len(q) >= Len(d) /\ SubSeq(q, 1, Len(d)) = d
\* the nodes the walk of the problem region meets as a child: below a
\* sibling of the region, with only structural containers in between
Encountered ==
    {q \in Range(Descendants(<<>>)) :
        \E m \in 1..Len(problem_content) :
            LET s == problem_content[m]
            IN  /\ Len(q) > Len(s)
                /\ SubSeq(q, 1, Len(s)) = s
                /\ \A n \in (Len(s) + 1)..(Len(q) - 1) :
                       Node(SubSeq(q, 1, n)).name \in Containers}
\* the items of the problem content that come from q or from below it
ItemsFrom(q) == SelectSeq(content_items, LAMBDA it : AtOrBelow(it.node, q))

\* C11: every br element the walk meets leaves exactly one line_break item.
C11_OneLineBreakPerBr ==
    Walked => \A q \in Encountered :
                  Node(q).name = "br"
                      => /\ Len(ItemsFrom(q)) = 1
                         /\ ItemsFrom(q)[1].type = "line_break"

\* an img, or a link whose only child is an img
ImageBearing(q) ==
    \/ Node(q).name = "img"
    \/ /\ Node(q).name = "a"
       /\ Len(Node(q).kids) = 1
       /\ Node(q).kids[1].name = "img"
ImageOf(q) == IF Node(q).name = "img" THEN Node(q) ELSE Node(q).kids[1]
SourceOf(n) == IF n.src # NoneStr /\ n.src # <<>> THEN n.src ELSE n.data_src
\* the image has a source and its download succeeds
Resolved(n) ==
    /\ SourceOf(n) # NoneStr /\ SourceOf(n) # <<>>
    /\ AbsUrl(SourceOf(n)) \notin netFail

\* an element that is no image, no link with an image and no container
OtherElement(q) ==
    /\ IsTag(Node(q))
    /\ Node(q).name \notin {"img", "p", "div", "span", "br", "pre", "code"}
    /\ ~(Node(q).name = "a"
           /\ \E d \in Range(Descendants(q)) : Node(d).name = "img")

\* C12: every element the walk meets that is no image, no link with an
\* image and no container (p, div, span, br, pre, code) leaves exactly one
\* html item with its visible text, its tag name and its markup.
C12_OtherElementsKept ==
    Walked => \A q \in Encountered :
                  OtherElement(q)
                      => ItemsFrom(q) = <<HtmlItem(get_text_strip(q), Node(q), q)>>

\* C13: an image-bearing node with a source whose download succeeds leaves
\* exactly one image item with the source, the local path of download_image
\* and the alt text, as a child of a container and as a sibling of the
\* region handed to the walk.
C13_OneImagePerImageNode ==
    Walked => \A q \in Encountered \cup Range(problem_content) :
                  (ImageBearing(q) /\ Resolved(ImageOf(q)))
                      => /\ Len(ItemsFrom(q)) = 1
                         /\ ItemsFrom(q)[1].type = "image"
                         /\ ItemsFrom(q)[1].src = SourceOf(ImageOf(q))
                         /\ ItemsFrom(q)[1].local_path =
                                download_image(SourceOf(ImageOf(q)),
                                               problem_num, s_problem)
                         /\ ItemsFrom(q)[1].alt =
                                (IF ImageOf(q).alt = NoneStr THEN <<>>
                                 ELSE ImageOf(q).alt)

\* node a comes before node b in document order
DocBefore(a, b) ==
    LET m == Max({n \in 0..Min({Len(a), Len(b)}) :
                     SubSeq(a, 1, n) = SubSeq(b, 1, n)})
    IN  IF m = Len(a) THEN m < Len(b)
        ELSE IF m = Len(b) THEN FALSE
        ELSE a[m + 1] < b[m + 1]
InDocOrder(items) ==
    \A j, k \in 1..Len(items) :
        j < k => DocBefore(items[j].node, items[k].node)
IsPrefix(a, b) == Len(a) <= Len(b) /\ SubSeq(b, 1, Len(a)) = a

C15_Ordered ==
    /\ InDocOrder(problem_data.content)
    /\ InDocOrder(solution_data.content)
    /\ \A k \in 1..Len(solutions) : InDocOrder(solutions[k].content)
    /\ \A j, k \in 1..Len(problem_content) :
           j < k => DocBefore(problem_content[j], problem_content[k])
    /\ Walked => problem_data.content
                     = WalkAll(problem_content, problem_num, s_problem)
C15_OnlyAppended ==
    /\ IsPrefix(problem_data.content, problem_data'.content)
    /\ IsPrefix(solutions, solutions')
    /\ solution_data'.number = solution_data.number
           => IsPrefix(solution_data.content, solution_data'.content)

\* C15: the items of every content list are in the document order of the
\* nodes they come from, the problem content is the walks of the region's
\* siblings joined in sibling order, and a step only appends to a list.
C15_ItemsInDocumentOrder == []C15_Ordered /\ [][C15_OnlyAppended]_vars

\* witness of C15: a problem content of three items or more from different
\* depths of the tree
C15_Witness ==
    /\ Returned
    /\ Len(content_items) >= 3
    /\ \E j, k \in 1..Len(content_items) :
           Len(content_items[j].node) # Len(content_items[k].node)

\* the patterns of the cascade that match the problem text
C18_Hits ==
    {k \in 1..Len(answer_patterns) :
        re_findall(answer_patterns[k], problem_text_of(content_items)) # <<>>}

\* C18: when a pattern of the cascade matches, the returned choices are the
\* cleaned matches of the first such pattern and nothing else: no later
\* pattern and no image alt text adds to them, even when a later pattern
\* has more matches or when every match cleans to the empty text.
C18_FirstPatternWins ==
    (Returned /\ C18_Hits # {})
        => /\ answer_choices =
                  CleanMatches(re_findall(answer_patterns[Min(C18_Hits)],
                                          problem_text_of(content_items)))
           /\ \A k \in 1..Len(answer_choices) : answer_choices[k].source = ""

\* witness of C18: the first pattern has fewer matches than a later one
C18_Witness ==
    /\ Returned
    /\ C18_Hits # {}
    /\ \E k \in C18_Hits :
           Len(re_findall(answer_patterns[k], problem_text_of(content_items)))
               > Len(re_findall(answer_patterns[Min(C18_Hits)],
                                problem_text_of(content_items)))
    /\ answer_choices # <<>>

\* the image items whose alt text has the marker and yields a choice
C19_Yielding ==
    {k \in 1..Len(content_items) :
        /\ HasChoiceMarker(content_items[k])
        /\ AltChoices(content_items[k].alt, 1) # <<>>}

\* C19: choices with source image_alt all come from one image item, the
\* first whose alt text has the \textbf{(A)} marker and yields a choice;
\* no later image is examined, and the returned choices either all have
\* the source image_alt or all have none.
C19_OneImageOnly ==
    Returned
        => /\ \/ \A k \in 1..Len(answer_choices) :
                     answer_choices[k].source = "image_alt"
              \/ \A k \in 1..Len(answer_choices) : answer_choices[k].source = ""
           /\ (\E k \in 1..Len(answer_choices) :
                   answer_choices[k].source = "image_alt")
                  => /\ C19_Yielding # {}
                     /\ answer_choices =
                            AltChoices(content_items[Min(C19_Yielding)].alt, 1)
                     /\ alt_idx = Min(C19_Yielding)

\* witness of C19: two images yield choices and those of the first are
\* returned
C19_Witness ==
    /\ Returned
    /\ Cardinality(C19_Yielding) >= 2
    /\ answer_choices # <<>>
    /\ answer_choices[1].source = "image_alt"

\* a heading whose text is "Solution n" or "Solution n:", with a paragraph
\* after it
C20_TextHeading(n) ==
    \E q \in Range(Descendants(<<>>)) :
        /\ Node(q).name \in {"h2", "h3"}
        /\ Strip(get_text(q)) \in {s_Solution_sp \o IntToStr(n),
                                   s_Solution_sp \o IntToStr(n) \o <<":">>}
        /\ find_next_sibling(q) # NoNode
        /\ Node(find_next_sibling(q)).name = "p"

\* C20: when the scan reaches index n and the page has no anchor
\* Solution_n but a heading with the text "Solution n" or "Solution n:",
\* solution n is found from that heading and returned with its content.
C20_HeadingTextFallback ==
    (fn = "extract_solutions" /\ pc = "done")
        => \A n \in 1..max_solutions :
               (i >= n /\ ~HasSolutionAnchor(n) /\ C20_TextHeading(n))
                   => \E k \in 1..Len(solutions) :
                          /\ solutions[k].number = n
                          /\ solutions[k].content # <<>>

---------------------------------------------------------------------------
(* scrape_all run twice: the records of pages and of failed fetches.       *)

\* the items without the path they were found at
Plain(items) == [k \in DOMAIN items |-> [items[k] EXCEPT !.node = <<>>]]
PlainSolutions(sols) ==
    [k \in DOMAIN sols |-> [sols[k] EXCEPT !.content = Plain(@)]]

\* the tree n without the images that have no source or fail to download
RECURSIVE C14_Without(_)
C14_Without(n) ==
    LET ks == SelectSeq(n.kids, LAMBDA c : ~(c.name = "img" /\ ~Resolved(c)))
    IN  [n EXCEPT !.kids = [k \in 1..Len(ks) |-> C14_Without(ks[k])]]

\* C14: an image without a source, or whose download fails, emits nothing,
\* and every other node emits what it would emit if that image node were
\* not in the tree: two pages scraped for the same problem number, one of
\* them the other without its failing images, give the same items.
C14_OthersAsIfImageAbsent ==
    calls = 1 =>
        \A j, k \in 1..Len(all_problems) :
            (/\ problem_links[j].num = problem_links[k].num
             /\ web[problem_links[k].url]
                    = C14_Without(web[problem_links[j].url]))
            => /\ Plain(all_problems[j].content)
                    = Plain(all_problems[k].content)
               /\ PlainSolutions(all_problems[j].solutions)
                    = PlainSolutions(all_problems[k].solutions)

\* the links whose fetch succeeds in the second run, in link order
Kept ==
    SelectSeq([k \in 1..Len(problem_links) |-> k],
              LAMBDA k : problem_links[k].url \notin fetchFail)

\* C16: when some fetches fail, the list scrape_all saves holds exactly one
\* record per link whose fetch succeeded, in link order, and each record is
\* the one the failure-free run gave for that link.
C16_OneRecordPerFetchedLink ==
    (calls = 2 /\ pc = "sa_done") =>
        all_problems = [m \in 1..Len(Kept) |-> reference[Kept[m]]]

\* a failed fetch is followed by a successful one
C16_Witness ==
    /\ calls = 2 /\ pc = "sa_done"
    /\ \E j, k \in 1..Len(problem_links) :
           /\ j < k
           /\ problem_links[j].url \in fetchFail
           /\ problem_links[k].url \notin fetchFail
    /\ all_problems # <<>>

\* every record made so far with the index of its link: the first run's
\* and, in the second run, those of the links fetched again
RecordsByLink ==
    IF calls = 2
    THEN {<<k, reference[k]>> : k \in 1..Len(reference)}
            \cup {<<Kept[m], all_problems[m]>> : m \in 1..Len(all_problems)}
    ELSE {<<k, all_problems[k]>> : k \in 1..Len(all_problems)}

SameInput(a, b) ==
    /\ web[problem_links[a].url] = web[problem_links[b].url]
    /\ problem_links[a].num = problem_links[b].num

\* C17: extract_problem and extract_solutions on the same page tree with
\* the same image outcomes give the same problem region, solution regions
\* and answer choices, whatever pages the instance processed before and
\* however often the call is repeated.
C17_SamePageSameRecord ==
    calls # 0 =>
        \A a, b \in RecordsByLink :
            SameInput(a[1], b[1]) => a[2] = b[2]

\* a page is processed again after a different page than the first time,
\* and its record is not empty
C17_Witness ==
    /\ calls = 2
    /\ Len(problem_links) = 2
    /\ web[problem_links[1].url] # web[problem_links[2].url]
    /\ all_problems # <<>>
    /\ Kept[1] = 1
    /\ all_problems[1].content # <<>>
    /\ all_problems[1].answer_choices # reference[2].answer_choices

---------------------------------------------------------------------------
(* The end of a solution region.                                           *)

\* sibling b is an h2 heading named as solution m, by the id of an anchor
\* in it or by its text
C21_IsSolutionHeading(b, m) ==
    /\ Node(b).name = "h2"
    /\ \/ \E q \in Range(Descendants(b)) :
              /\ Node(q).name = "span"
              /\ Node(q).id # NoneStr
              /\ StartsWith(Node(q).id, s_Solution_)
              /\ NumberAfter(Node(q).id, s_Solution_, FALSE) = m
       \/ /\ StartsWith(Lower(Strip(get_text(b))), s_solution)
          /\ NumberAfter(Lower(Strip(get_text(b))), s_solution, TRUE) = m

\* no item of solution number n comes from sibling b or from after it
EndsBefore(sol, b) == \A it \in Range(sol.content) : ~AtOrAfter(it.node, b)

\* C21: the content of every returned solution n, n = max_solutions
\* included, has no item from a following sibling heading that is named as
\* solution n + 1 by an anchor id or by its text, nor from a sibling after
\* that heading.
C21_NextSolutionEndsRegion ==
    fn = "extract_solutions" =>
        \A k \in 1..Len(solutions) :
            \A b \in FollowingSiblings(solution_heading_of(solutions[k].number)) :
                C21_IsSolutionHeading(b, solutions[k].number + 1)
                    => EndsBefore(solutions[k], b)

\* sibling b is an h2 heading for video or "see also" content, by its text
\* or by the id of an anchor in it
C22_IsClosingHeading(b) ==
    /\ Node(b).name = "h2"
    /\ \/ \E q \in Range(Descendants(b)) :
              /\ Node(q).name = "span"
              /\ Node(q).id # NoneStr
              /\ \/ StartsWith(Node(q).id, s_Video)
                 \/ StartsWith(Node(q).id, s_See_Also)
       \/ StartsWith(Lower(Strip(get_text(b))), s_video)
       \/ StartsWith(Lower(Strip(get_text(b))), s_see_also)

\* C22: the content of every returned solution has no item from a
\* following sibling heading that signals video or "see also" content by
\* its text or by its anchor id, with or without an anchor that has an id,
\* nor from a sibling after that heading.
C22_ClosingHeadingEndsRegion ==
    fn = "extract_solutions" =>
        \A k \in 1..Len(solutions) :
            \A b \in FollowingSiblings(solution_heading_of(solutions[k].number)) :
                C22_IsClosingHeading(b) => EndsBefore(solutions[k], b)

\* the Problem heading: the heading element around the anchor, or the
\* anchor itself when it is the heading or stands alone
C23_Heading ==
    LET a == problem_heading_of
    IN  IF Node(a).name = "span" /\ Node(Parent(a)).name \in {"h2", "h3"}
        THEN Parent(a) ELSE a

\* the siblings from c on, up to the first terminating one
RECURSIVE C23_Region(_)
C23_Region(c) ==
    IF c = NoNode THEN <<>>
    ELSE IF IsProblemBoundary(c) THEN <<>>
    ELSE <<c>> \o C23_Region(find_next_sibling(c))

\* C23: with the anchor found by id or by the heading text, under any
\* parent element, the problem content is the walked items of exactly the
\* siblings that follow the Problem heading, in order, up to the first
\* terminating sibling.
C23_ContentFromFollowingSiblings ==
    (Returned /\ problem_heading_of # NoNode)
        => content_items
             = WalkAll(C23_Region(find_next_sibling(C23_Heading)),
                       problem_num, s_problem)

---------------------------------------------------------------------------
(* The output file and the image files.                                    *)

\* the fields of a complete record
RecordFields ==
    {"number", "content", "answer_choices", "solutions", "year",
     "contest_type", "contest_name"}

\* the file was written once per finished call of scrape_all and not at all
\* by a call that is running or was aborted, and every record in it is
\* complete
C24_Written ==
    calls # 0 =>
        /\ Len(output_file) = IF pc = "sa_done" THEN calls ELSE calls - 1
        /\ \A w \in 1..Len(output_file) :
               \A k \in 1..Len(output_file[w]) :
                   DOMAIN output_file[w][k] = RecordFields

\* a write comes after the last link and writes the whole list
C24_WriteStep ==
    output_file' # output_file =>
        /\ link_idx > Len(problem_links)
        /\ output_file' = Append(output_file, all_problems)

C25_Images(sol) == SelectSeq(sol.content, LAMBDA it : it.type = "image")

\* two image items downloaded from distinct URLs whose residue and
\* extension are equal
C25_Collide(x, y) ==
    /\ AbsUrl(x.src) # AbsUrl(y.src)
    /\ UrlHash(AbsUrl(x.src)) = UrlHash(AbsUrl(y.src))
    /\ UrlExt(AbsUrl(x.src)) = UrlExt(AbsUrl(y.src))

\* C25: two distinct image URLs downloaded for the same problem number and
\* role whose hash residues (and extensions) are equal get the same local
\* file name: both image items have the same local_path and the file holds
\* what the second download wrote.
C25_CollidingNamesOverwrite ==
    \A s \in 1..Len(solutions) :
        LET imgs == C25_Images(solutions[s]) IN
        \A j, k \in 1..Len(imgs) :
            (j < k /\ C25_Collide(imgs[j], imgs[k])
                   /\ \A m \in (k + 1)..Len(imgs) :
                          imgs[m].local_path # imgs[k].local_path)
            => /\ imgs[j].local_path = imgs[k].local_path
               /\ {f \in images_dir : f.name = imgs[k].local_path}
                    = {[name |-> imgs[k].local_path,
                        holds |-> AbsUrl(imgs[k].src)]}

\* such a pair was returned
C25_Witness ==
    /\ fn = "extract_solutions" /\ pc = "done"
    /\ \E s \in 1..Len(solutions) :
           \E j, k \in 1..Len(C25_Images(solutions[s])) :
               /\ j < k
               /\ C25_Collide(C25_Images(solutions[s])[j],
                              C25_Images(solutions[s])[k])
               /\ C25_Images(solutions[s])[j].local_path
                    = C25_Images(solutions[s])[k].local_path

---------------------------------------------------------------------------
(* The returned solutions and the saved records.                           *)

\* the solutions located so far that are not in the list: the loop reaches
\* index n only when the headings of 1..n-1 were located
C26_Dropped ==
    {n \in 1..(i - 1) : \A p \in 1..Len(solutions) : solutions[p].number # n}

C26_Returned ==
    fn = "extract_solutions" =>
        \A p \in 1..Len(solutions) :
            /\ solutions[p].content # <<>>
            /\ solutions[p].number >= p
            /\ (solutions[p].number = p)
                  <=> (\A n \in C26_Dropped : n > solutions[p].number)

\* at the end of a region the solution is appended or, when its content is
\* empty, left out, and the loop goes on with the next index
C26_DropStep ==
    pc = "s_end" =>
        /\ solutions' = IF solution_data.content = <<>> THEN solutions
                        ELSE Append(solutions, solution_data)
        /\ i' = i + 1
        /\ pc' = "s_loop"

\* C26: a located solution whose content is empty is left out without
\* stopping the scan; every returned solution has content and keeps its
\* declared number: the record at position p has number n >= p, and n = p
\* exactly when no located solution before it was dropped.
C26_EmptySolutionsDropped == []C26_Returned /\ [][C26_DropStep]_vars

\* solution 1 was located and dropped, solution 2 is the first record
C26_Witness ==
    /\ fn = "extract_solutions" /\ pc = "done"
    /\ solutions # <<>>
    /\ solutions[1].number = 2
    /\ 1 \in C26_Dropped

\* C27: the records scrape_all saves have numbers in 1..25, in
\* non-decreasing order, and no two of them have the same number.
C27_NumbersIdentifyRecords ==
    \A w \in 1..Len(output_file) :
        LET saved == output_file[w] IN
        /\ \A k \in 1..Len(saved) : saved[k].number \in 1..25
        /\ \A j, k \in 1..Len(saved) :
               j < k => saved[j].number < saved[k].number

\* the siblings of its heading that the items of a solution come from
C28_Region(sol) ==
    LET h == solution_heading_of(sol.number)
    IN  {SubSeq(it.node, 1, Len(h)) : it \in Range(sol.content)}

\* C28: the regions of two returned solutions are disjoint: no sibling
\* gives items to both, and none contains the heading of the other.
C28_RegionsDisjoint ==
    fn = "extract_solutions" =>
        \A j, k \in 1..Len(solutions) :
            j # k =>
                /\ C28_Region(solutions[j]) \cap C28_Region(solutions[k]) = {}
                /\ solution_heading_of(solutions[k].number)
                      \notin C28_Region(solutions[j])

---------------------------------------------------------------------------
(* The web app and the labeler.                                            *)

\* the last request went to a protected endpoint: it was answered 401
\* without the handler unless a login succeeded and no logout came since
C29_Guarded ==
    last_request.endpoint \in ProtectedEndpoints =>
        IF auth_hist = "in"
        THEN last_request.ran /\ last_request.status # 401
        ELSE ~last_request.ran /\ last_request.status = 401

\* a login attempt that fails leaves the session as it is
C29_FailedLoginStep ==
    (last_request'.endpoint = "/api/login" /\ last_request'.status # 200
        /\ n_req' # n_req)
    => session' = session

\* C29: in one session every login-protected endpoint answers 401 without
\* running its handler unless a successful /api/login has occurred and no
\* /api/logout since; a failed login neither sets nor clears the logged-in
\* state.
C29_LoginProtects == []C29_Guarded /\ [][C29_FailedLoginStep]_vars

\* after a login and a logout a protected endpoint has answered 401
C29_Witness ==
    /\ auth_hist = "out"
    /\ last_request.endpoint \in ProtectedEndpoints
    /\ last_request.status = 401

\* between problems and between runs the file holds every label whose save
\* completed, as it was saved
C30_Kept ==
    lpc \in {"idle", "loop"} =>
        \A k \in DOMAIN persisted :
            /\ labels_file.parses
            /\ k \in DOMAIN labels_file.data
            /\ labels_file.data[k] = persisted[k]

\* a problem with a saved label is not sent to the API, and a new label is
\* in the file before the next problem is started
C30_Step ==
    /\ (lpc = "loop" /\ lpc' = "save") => screenshot_idx \notin DOMAIN persisted
    /\ (lpc # "idle" /\ lpc' = "loop"
            /\ screenshot_idx' = screenshot_idx + 1)
        => /\ labels_file'.parses
           /\ screenshot_idx \in DOMAIN labels_file'.data

\* C30: over any sequence of runs and interruptions a problem whose key
\* has a label (any category, "Error" too) is never sent to the API again
\* and its entry never changes, and each new label is written to the file
\* before the next problem is started, so that the file always holds every
\* label computed so far.
C30_LabelsKept == []C30_Kept /\ [][C30_Step]_vars

====
